---- MODULE Spec2Model ----
(***************************************************************************)
(* A model of github.com/memes/f5xc: the wingman unseal client, the        *)
(* wingman readiness poller and the blindfold (vesctl) seal path.          *)
(*                                                                         *)
(* Strings and byte slices are sequences: a byte slice that carries text   *)
(* is a sequence of one-character strings, decoded bytes are numbers       *)
(* 0..255, and a path, URL or environment value is a sequence of string    *)
(* chunks.  A Go error is a record: isNil, the set `is` of the sentinels   *)
(* and causes errors.Is finds in its chain, and the code and text its      *)
(* message carries.                                                        *)
(***************************************************************************)
EXTENDS Integers, Sequences, FiniteSets, TLC

VARIABLES
    uPc,        \* UnsealEncoded: "idle", "sending" (client.Do in flight), "done"
    uSealed,    \* UnsealEncoded: the sealed argument of the call
    uRaw,       \* Unseal: the sealed argument of the call, before its encoding
    uEndpoint,  \* the endpoint argument of the call
    uEntry,     \* which exported function the caller entered through
    uReqs,      \* every HTTP request the call handed to client.Do, in order
    uResp,      \* the response client.Do returned (or the absence of one)
    uResult,    \* the (data, error) pair the call returned
    wPc,        \* WaitForReady: "idle", "select", "doing", "reading", "drain", "done"
    wCfg,       \* WaitForReady: the call's arguments and the sidecar it talks to
    now,        \* the clock
    timer,      \* the time.Timer of the call: armed, due, and whether timer.C holds a value
    wResp,      \* the probe response whose body is being read
    wLast,      \* the outcome of the last probe that completed
    wProbeAt,   \* when the last probe was issued (-1: none yet)
    wReq,       \* the last request the call handed to client.Do
    wRet,       \* what WaitForReady returned, and when
    bPc,        \* blindfold: the position of the call in Seal, SealFile and ExecuteVesctl
    bIn,        \* blindfold: the exported function called, and its arguments
    bWorld,     \* the calling process: its environment, what LookPath finds, the random seed
    bCtxDone,   \* whether the call's context is done
    fs,         \* the file system: path -> [kind, data]
    bMade,      \* every path the call has created
    bLoc,       \* the locals of the three functions that hold paths
    child,      \* the vesctl child process: state, argv, env, stdin, how it ended
    bBuf,       \* what the child wrote to the stdout writer
    bVal,       \* the (data, error) pair on its way out through the deferred calls
    bLog,       \* the paths whose removal failed and was logged
    bRet,       \* what the exported function returned
    cPc,        \* concurrent invocations: the position of each
    cIn,        \* concurrent invocations: the function each called, and its arguments
    cFs,        \* the temporary area they share: path -> [kind, data, by]
    cLoc,       \* the locals of each invocation
    cArray,     \* the backing array of the args slice the caller handed out
    cMade,      \* the paths each invocation has created
    cForeign,   \* every write or removal that hit a path another invocation holds
    cChild,     \* what the child of each invocation was started with, and read
    dPc,        \* unseal driver: "main", "waiting", "loop", "range", "unsealing", "exited"
    dArgs,      \* unseal driver: how many FILE arguments it was given
    dLevel,     \* unseal driver: the log level UNSEAL_LOG_LEVEL selects
    dIdx,       \* unseal driver: the index of sourceFile in os.Args[1:]
    dSpec,      \* process: the entries of spec the range has not yielded yet
    dCur,       \* process: path, sealed and unsealed of the entry in hand
    dReqs,      \* every unseal request the driver handed to client.Do, in order
    dReads,     \* every source file the driver has read, in order, and what it held
    dOut,       \* the target files: path -> the bytes written
    dLog,       \* the log records the driver's process has emitted
    dErr,       \* the error that ended main
    retCode,    \* the exit status (-1 while main runs)
    aPc,        \* argument building: "idle", "merge", "append", "built"
    aIn,        \* argument building: vesctl, args, params and the decoy file's name
    aParameters,\* the parameters map
    aKeys,      \* the keys the range loop in progress has not yielded yet
    aFinal,     \* finalArguments
    aCmd,       \* cmd.Args
    kPc,        \* f5xc client: "idle", "options", "doing", "done"
    kIn,        \* f5xc client: the function called, and its arguments
    kCfg,       \* NewClient: the config the options work on
    kIdx,       \* NewClient: the index of the option the loop is at
    kResp,      \* EnvelopeAPICall: what client.Do returned
    kRet        \* what the function returned

uVars == <<uPc, uSealed, uRaw, uEndpoint, uEntry, uReqs, uResp, uResult>>

wVars == <<wPc, wCfg, now, timer, wResp, wLast, wProbeAt, wReq, wRet>>

bVars == <<bPc, bIn, bWorld, bCtxDone, fs, bMade, bLoc, child, bBuf, bVal, bLog, bRet>>

cVars == <<cPc, cIn, cFs, cLoc, cArray, cMade, cForeign, cChild>>

dVars == <<dPc, dArgs, dLevel, dIdx, dSpec, dCur, dReqs, dReads, dOut, dLog, dErr, retCode>>

aVars == <<aPc, aIn, aParameters, aKeys, aFinal, aCmd>>

kVars == <<kPc, kIn, kCfg, kIdx, kResp, kRet>>

vars == <<uVars, wVars, bVars, cVars, dVars, aVars, kVars>>

\* what an action of one component leaves alone
uRest == <<wVars, bVars, cVars, dVars, aVars, kVars>>

wRest == <<uVars, bVars, cVars, dVars, aVars, kVars>>

bRest == <<uVars, wVars, cVars, dVars, aVars, kVars>>

cRest == <<uVars, wVars, bVars, dVars, aVars, kVars>>

dRest == <<uVars, wVars, bVars, cVars, aVars, kVars>>

aRest == <<uVars, wVars, bVars, cVars, dVars, kVars>>

kRest == <<uVars, wVars, bVars, cVars, dVars, aVars>>

----------------------------------------------------------------------------
(* Go values *)

NilBytes == [isNil |-> TRUE, bytes |-> <<>>]

Bytes(s) == [isNil |-> FALSE, bytes |-> s]

NilErr == [isNil |-> TRUE, is |-> {}, code |-> 0, text |-> <<>>]

MkErr(is, code, text) == [isNil |-> FALSE, is |-> is, code |-> code, text |-> text]

\* errors.Is(err, target)
ErrorsIs(err, target) == ~err.isNil /\ target \in err.is

RECURSIVE SeqsUpTo(_, _)
SeqsUpTo(S, n) ==
    IF n = 0 THEN {<<>>}
    ELSE LET shorter == SeqsUpTo(S, n - 1)
         IN  shorter \cup {Append(s, c) : s \in {t \in shorter : Len(t) = n - 1}, c \in S}

----------------------------------------------------------------------------
(* encoding/base64, StdEncoding *)

B64Chars ==
    <<"A", "B", "C", "D", "E", "F", "G", "H", "I", "J", "K", "L", "M",
      "N", "O", "P", "Q", "R", "S", "T", "U", "V", "W", "X", "Y", "Z",
      "a", "b", "c", "d", "e", "f", "g", "h", "i", "j", "k", "l", "m",
      "n", "o", "p", "q", "r", "s", "t", "u", "v", "w", "x", "y", "z",
      "0", "1", "2", "3", "4", "5", "6", "7", "8", "9", "+", "/">>

IsB64Char(c) == \E i \in 1..64 : B64Chars[i] = c

B64Index(c) == (CHOOSE i \in 1..64 : B64Chars[i] = c) - 1

\* The decoder skips carriage returns and line feeds wherever they stand.
StripNL(s) == SelectSeq(s, LAMBDA c : c \notin {"\n", "\r"})

\* Decode succeeds on whole quanta of four characters; padding is legal only
\* as the last one or two characters of the input.
B64Valid(s) ==
    LET t == StripNL(s)
        n == Len(t)
    IN  /\ n % 4 = 0
        /\ \A i \in 1..n :
              \/ IsB64Char(t[i])
              \/ /\ t[i] = "="
                 /\ i \in {n - 1, n}
                 /\ t[n] = "="

B64Sextet(c) == IF c = "=" THEN 0 ELSE B64Index(c)

B64Quantum(q) ==
    LET v     == B64Sextet(q[1]) * 262144 + B64Sextet(q[2]) * 4096
                 + B64Sextet(q[3]) * 64 + B64Sextet(q[4])
        pads  == Cardinality({i \in 3..4 : q[i] = "="})
        three == <<v \div 65536, (v \div 256) % 256, v % 256>>
    IN  SubSeq(three, 1, 3 - pads)

RECURSIVE B64DecodeQuanta(_)
B64DecodeQuanta(t) ==
    IF Len(t) < 4 THEN <<>>
    ELSE B64Quantum(SubSeq(t, 1, 4)) \o B64DecodeQuanta(SubSeq(t, 5, Len(t)))

\* base64.StdEncoding.Decode on valid input: the decoded bytes.
B64Decode(s) == B64DecodeQuanta(StripNL(s))

B64EncodeGroupUnpadded(g) ==
    LET b(i) == IF i <= Len(g) THEN g[i] ELSE 0
        v    == b(1) * 65536 + b(2) * 256 + b(3)
        c(k) == B64Chars[((v \div (64 ^ (4 - k))) % 64) + 1]
    IN  SubSeq(<<c(1), c(2), c(3), c(4)>>, 1, Len(g) + 1)

\* the encoder's output for up to three bytes: four characters, padded
B64EncodeGroup(g) ==
    LET b(i) == IF i <= Len(g) THEN g[i] ELSE 0
        v    == b(1) * 65536 + b(2) * 256 + b(3)
        c(k) == B64Chars[((v \div (64 ^ (4 - k))) % 64) + 1]
    IN  <<c(1), c(2), IF Len(g) >= 2 THEN c(3) ELSE "=", IF Len(g) >= 3 THEN c(4) ELSE "=">>

\* base64.NewEncoder(base64.StdEncoding, w): Write(b), then Close()
RECURSIVE B64Encode(_)
B64Encode(b) ==
    IF b = <<>> THEN <<>>
    ELSE IF Len(b) <= 3 THEN B64EncodeGroup(b)
    ELSE B64EncodeGroup(SubSeq(b, 1, 3)) \o B64Encode(SubSeq(b, 4, Len(b)))

----------------------------------------------------------------------------
(* wingman: Unseal and UnsealEncoded *)

MaxBody == 4

StatusOK == 200

StatusForbidden == 403

StatusServiceUnavailable == 503

StatusBadRequest == 400

Statuses == {StatusOK, StatusForbidden, StatusServiceUnavailable, 500, 404, 204}

BodyChars == {"Q", "U", "=", "^"}

RespBodies == SeqsUpTo(BodyChars, MaxBody)

\* byte slices a caller hands to Unseal
RawInputs == {<<>>, <<65>>, <<78, 111>>, <<72, 105, 33>>, <<0, 255, 128, 7>>}

\* byte slices a caller hands to UnsealEncoded
SealedInputs ==
    {<<>>, <<"Q", "Q", "=", "=">>, <<"^", "^">>, <<"\"", "Q">>}
        \cup {B64Encode(raw) : raw \in RawInputs}

UnsealEndpoint == <<"/secret/unseal">>

DefaultWingmanURL == <<"http://localhost:8070">>

Endpoints == {DefaultWingmanURL \o UnsealEndpoint, <<"http://wingman.test">>, <<":bad">>}

\* http.NewRequestWithContext fails when the URL does not parse.
URLParses(endpoint) == endpoint # <<":bad">>

TransportFailures == {"connection refused", "tls", "context.Canceled", "context.DeadlineExceeded"}

NoResp == [received |-> FALSE, status |-> 0, body |-> <<>>, readOK |-> FALSE]

RECURSIVE JSONEscape(_)
JSONEscape(t) ==
    IF t = <<>> THEN <<>>
    ELSE (IF Head(t) \in {"\"", "\\"} THEN <<"\\", Head(t)>> ELSE <<Head(t)>>)
         \o JSONEscape(Tail(t))

UnsealRequestBodyEscaped(sealed) ==
    <<"{\"type\":\"blindfold\",\"location\":\"string:///">> \o JSONEscape(sealed) \o <<"\"}">>

\* the three writes to buf
UnsealRequestBody(sealed) ==
    <<"{\"type\":\"blindfold\",\"location\":\"string:///">> \o sealed \o <<"\"}">>

UnsealRequest(endpoint, sealed) ==
    [method |-> "POST", url |-> endpoint, contentType |-> "application/json",
     body |-> UnsealRequestBody(sealed)]

UnsealClassifyNoForbidden(status, body) ==
    IF status = StatusOK
    THEN IF B64Valid(body)
         THEN [data |-> Bytes(B64Decode(body)), err |-> NilErr]
         ELSE [data |-> NilBytes, err |-> MkErr({"base64.CorruptInputError"}, 0, <<>>)]
    ELSE IF status = StatusServiceUnavailable
    THEN [data |-> NilBytes, err |-> MkErr({"ErrNotReady"}, 0, body)]
    ELSE [data |-> NilBytes, err |-> MkErr({"ErrUnexpectedHTTPStatus"}, status, body)]

UnsealClassifyEmptyIsError(status, body) ==
    IF body = <<>>
    THEN [data |-> NilBytes, err |-> MkErr({"empty"}, 0, <<>>)]
    ELSE UnsealClassifyNoForbidden(status, body)

UnsealClassifyOwnNotReady(status, body) ==
    IF status = StatusOK
    THEN IF B64Valid(body)
         THEN [data |-> Bytes(B64Decode(body)), err |-> NilErr]
         ELSE [data |-> NilBytes, err |-> MkErr({"base64.CorruptInputError"}, 0, <<>>)]
    ELSE IF status = StatusForbidden
    THEN [data |-> NilBytes, err |-> MkErr({"ErrDeniedByPolicy"}, 0, <<>>)]
    ELSE IF status = StatusServiceUnavailable
    THEN [data |-> NilBytes, err |-> MkErr({"ErrServiceNotReady"}, 0, body)]
    ELSE [data |-> NilBytes, err |-> MkErr({"ErrUnexpectedHTTPStatus"}, status, body)]

\* The switch on resp.StatusCode and the return that follows it.
UnsealClassify(status, body) ==
    IF status = StatusOK
    THEN IF B64Valid(body)
         THEN [data |-> Bytes(B64Decode(body)), err |-> NilErr]
         ELSE [data |-> NilBytes, err |-> MkErr({"base64.CorruptInputError"}, 0, <<>>)]
    ELSE IF status = StatusForbidden
    THEN [data |-> NilBytes, err |-> MkErr({"ErrDeniedByPolicy"}, 0, <<>>)]
    ELSE IF status = StatusServiceUnavailable
    THEN [data |-> NilBytes, err |-> MkErr({"ErrNotReady"}, 0, body)]
    ELSE [data |-> NilBytes, err |-> MkErr({"ErrUnexpectedHTTPStatus"}, status, body)]

\* the values the records of UnsealEncoded carry: endpoint and statusCode
UnsealLogValues == {uEndpoint, <<ToString(uResp.status)>>}

UnsealInit ==
    /\ uPc = "idle"
    /\ uSealed = <<>>
    /\ uRaw = <<>>
    /\ uEndpoint = <<>>
    /\ uEntry = "none"
    /\ uReqs = <<>>
    /\ uResp = NoResp
    /\ uResult = [data |-> NilBytes, err |-> NilErr]

\* UnsealEncoded up to client.Do: build the body, build the request.
UnsealEncodedCall ==
    /\ uPc = "idle"
    /\ \E sealed \in SealedInputs, endpoint \in Endpoints :
          /\ uSealed' = sealed
          /\ uRaw' = <<>>
          /\ uEndpoint' = endpoint
          /\ uEntry' = "UnsealEncoded"
          /\ IF URLParses(endpoint)
             THEN /\ uPc' = "sending"
                  /\ uReqs' = Append(uReqs, UnsealRequest(endpoint, sealed))
                  /\ UNCHANGED uResult
             ELSE /\ uPc' = "done"
                  /\ uResult' = [data |-> NilBytes, err |-> MkErr({"url.Error"}, 0, <<>>)]
                  /\ UNCHANGED uReqs
    /\ UNCHANGED uResp
    /\ UNCHANGED uRest

TransportErrorAsNotReady(cause) ==
    [data |-> NilBytes, err |-> MkErr({"ErrNotReady", cause}, 0, <<>>)]

\* what UnsealEncoded returns when client.Do fails: the client's error,
\* wrapped with %w in a message, and no data
TransportError(cause) ==
    [data |-> NilBytes, err |-> MkErr({cause}, 0, <<>>)]

\* client.Do returns an error: no response.
UnsealTransportFailure ==
    /\ uPc = "sending"
    /\ \E cause \in TransportFailures :
          uResult' = TransportError(cause)
    /\ uPc' = "done"
    /\ UNCHANGED <<uSealed, uRaw, uEndpoint, uEntry, uReqs, uResp>>
    /\ UNCHANGED uRest

\* client.Do returns a response; io.ReadAll reads its body, or fails to.
UnsealResponse ==
    /\ uPc = "sending"
    /\ \E status \in Statuses, body \in RespBodies, readOK \in BOOLEAN :
          /\ uResp' = [received |-> TRUE, status |-> status, body |-> body, readOK |-> readOK]
          /\ uResult' = IF readOK
                        THEN UnsealClassify(status, body)
                        ELSE [data |-> NilBytes, err |-> MkErr({"io.ReadAll"}, 0, <<>>)]
    /\ uPc' = "done"
    /\ UNCHANGED <<uSealed, uRaw, uEndpoint, uEntry, uReqs>>
    /\ UNCHANGED uRest

\* Unseal: encode sealed, then UnsealEncoded up to client.Do.
UnsealCall ==
    /\ uPc = "idle"
    /\ \E raw \in RawInputs, endpoint \in Endpoints :
          /\ uRaw' = raw
          /\ uSealed' = B64Encode(raw)
          /\ uEndpoint' = endpoint
          /\ uEntry' = "Unseal"
          /\ IF URLParses(endpoint)
             THEN /\ uPc' = "sending"
                  /\ uReqs' = Append(uReqs, UnsealRequest(endpoint, B64Encode(raw)))
                  /\ UNCHANGED uResult
             ELSE /\ uPc' = "done"
                  /\ uResult' = [data |-> NilBytes, err |-> MkErr({"url.Error"}, 0, <<>>)]
                  /\ UNCHANGED uReqs
    /\ UNCHANGED uResp
    /\ UNCHANGED uRest

\* DefaultUnsealEncoded: UnsealEncoded with the sidecar's default URL.
DefaultUnsealEncodedCall ==
    /\ uPc = "idle"
    /\ \E sealed \in SealedInputs :
          /\ uSealed' = sealed
          /\ uReqs' = Append(uReqs, UnsealRequest(DefaultWingmanURL \o UnsealEndpoint, sealed))
    /\ uRaw' = <<>>
    /\ uEndpoint' = <<>>
    /\ uEntry' = "DefaultUnsealEncoded"
    /\ uPc' = "sending"
    /\ UNCHANGED <<uResp, uResult>>
    /\ UNCHANGED uRest

\* DefaultUnseal: Unseal with the sidecar's default URL.
DefaultUnsealCall ==
    /\ uPc = "idle"
    /\ \E raw \in RawInputs :
          /\ uRaw' = raw
          /\ uSealed' = B64Encode(raw)
          /\ uReqs' = Append(uReqs, UnsealRequest(DefaultWingmanURL \o UnsealEndpoint, B64Encode(raw)))
    /\ uEndpoint' = <<>>
    /\ uEntry' = "DefaultUnseal"
    /\ uPc' = "sending"
    /\ UNCHANGED <<uResp, uResult>>
    /\ UNCHANGED uRest

\* the payload a JSON decoder finds after string:/// in the location field
RequestPayload(body) == SubSeq(body, 2, Len(body) - 1)

\* json.Unmarshal takes the body only when the payload leaves the string
\* literal it is embedded in intact.
JSONStringSafe(payload) == \A i \in DOMAIN payload : payload[i] \notin {"\"", "\\", "\n", "\r"}

\* the ROT13 of the test sidecar
Rot13(b) ==
    IF b >= 65 /\ b <= 90 THEN ((b - 65 + 13) % 26) + 65
    ELSE IF b >= 97 /\ b <= 122 THEN ((b - 97 + 13) % 26) + 97
    ELSE b

Rot13Bytes(data) == [i \in DOMAIN data |-> Rot13(data[i])]

\* testWingmanUnsealHandler: the status and body it answers a request with
UnsealHandler(body) ==
    LET payload == RequestPayload(body)
    IN  IF JSONStringSafe(payload) /\ B64Valid(payload)
        THEN [status |-> StatusOK, body |-> B64Encode(Rot13Bytes(B64Decode(payload)))]
        ELSE [status |-> StatusBadRequest, body |-> <<>>]

\* client.Do returns the answer of the test sidecar, and its body is read.
UnsealHandlerResponse ==
    /\ uPc = "sending"
    /\ LET answer == UnsealHandler(uReqs[Len(uReqs)].body)
       IN  /\ uResp' = [received |-> TRUE, status |-> answer.status,
                        body |-> answer.body, readOK |-> TRUE]
           /\ uResult' = UnsealClassify(answer.status, answer.body)
    /\ uPc' = "done"
    /\ UNCHANGED <<uSealed, uRaw, uEndpoint, uEntry, uReqs>>
    /\ UNCHANGED uRest

UnsealNext ==
    \/ UnsealEncodedCall
    \/ UnsealCall
    \/ DefaultUnsealEncodedCall
    \/ DefaultUnsealCall
    \/ UnsealTransportFailure
    \/ UnsealResponse
    \/ UnsealHandlerResponse

----------------------------------------------------------------------------
(* wingman: WaitForReady *)

MaxTime == 5

MaxSleep == 3

\* time.NewTimer(1 * time.Millisecond)
InitialDelay == 1

READY == <<"R", "E", "A", "D", "Y">>

INITIALIZING == <<"I", "N", "I", "T", "I", "A", "L", "I", "Z", "I", "N", "G">>

ProbeBodies == {READY, INITIALIZING, READY \o <<"\n">>, <<>>}

ProbeStatuses == {StatusOK, StatusServiceUnavailable, 404}

\* A sidecar of kind "any" may answer anything or fail at any time; one of
\* kind "timed" refuses connections or answers 200 INITIALIZING before
\* readyAt and answers 200 READY from readyAt on.  A deadline of MaxTime + 1
\* is a context that is not cancelled within the horizon.
WaitConfigs ==
    [endpointOK : BOOLEAN, sleep : 0..MaxSleep, deadline : 0..(MaxTime + 1),
     server : {"any"}, readyAt : {0}]
    \cup
    [endpointOK : {TRUE}, sleep : 0..MaxSleep, deadline : 0..(MaxTime + 1),
     server : {"timed"}, readyAt : 0..MaxTime]

NoTimer == [armed |-> FALSE, due |-> 0, chan |-> FALSE]

NoProbe == [kind |-> "none", status |-> 0, body |-> <<>>, at |-> 0]

NotReturned == [returned |-> FALSE, err |-> NilErr, at |-> 0]

\* ctx.Done() is closed
CtxDone == now >= wCfg.deadline

\* time.NewTimer(d) and timer.Reset(d) at the present instant: the runtime
\* sends on timer.C once d has elapsed.
TimerSet(d) ==
    IF d <= 0
    THEN [armed |-> FALSE, due |-> now, chan |-> TRUE]
    ELSE [armed |-> TRUE, due |-> now + d, chan |-> FALSE]

\* the timer as the clock reaches t
TimerAt(t) ==
    IF timer.armed /\ timer.due <= t
    THEN [armed |-> FALSE, due |-> timer.due, chan |-> TRUE]
    ELSE timer

IsReadyAnyBody(status, body) == status = 200

\* resp.StatusCode == 200 && bytes.Equal(body, []byte("READY"))
IsReady(status, body) == status = 200 /\ body = READY

CancelResultNil == NilErr

\* the return of the ctx.Done() case
CancelResult == MkErr({"ErrNotReady"}, 0, <<>>)

NoRequest == [method |-> "", url |-> <<>>]

StatusEndpoint == <<"/status">>

\* the endpoint argument: one that parses, or one that does not
WaitEndpoint == IF wCfg.endpointOK THEN <<"http://wingman.test">> ELSE <<":bad">>

StatusRequestAppendsPath(endpoint) == [method |-> "GET", url |-> endpoint \o StatusEndpoint]

\* http.NewRequestWithContext(ctx, http.MethodGet, endpoint, nil)
StatusRequest(endpoint) == [method |-> "GET", url |-> endpoint]

WaitIdle ==
    /\ wPc = "idle"
    /\ now = 0
    /\ timer = NoTimer
    /\ wResp = NoProbe
    /\ wLast = NoProbe
    /\ wProbeAt = -1
    /\ wReq = NoRequest
    /\ wRet = NotReturned

WaitInit == WaitIdle /\ wCfg \in WaitConfigs

FirstTimerSleeps == TimerSet(wCfg.sleep)

\* time.NewTimer(1 * time.Millisecond)
FirstTimer == TimerSet(InitialDelay)

\* WaitForReady up to the first select: the timer is created.
WaitForReadyCall ==
    /\ wPc = "idle"
    /\ wPc' = "select"
    /\ timer' = FirstTimer
    /\ UNCHANGED <<wCfg, now, wResp, wLast, wProbeAt, wRet, wReq>>
    /\ UNCHANGED wRest

\* case <-ctx.Done(): stop the timer, drain its channel if Stop says it had
\* expired, return ErrNotReady.  When the timer has expired and its value
\* was already received, the drain blocks.
SelectCtxDone ==
    /\ wPc = "select"
    /\ CtxDone
    /\ IF timer.armed \/ timer.chan
       THEN /\ wPc' = "done"
            /\ timer' = [armed |-> FALSE, due |-> timer.due, chan |-> FALSE]
            /\ wRet' = [returned |-> TRUE, err |-> CancelResult, at |-> now]
       ELSE /\ wPc' = "drain"
            /\ UNCHANGED <<timer, wRet>>
    /\ UNCHANGED <<wCfg, now, wResp, wLast, wProbeAt, wReq>>
    /\ UNCHANGED wRest

StatusRequestErrorNotReady == MkErr({"url.Error", "ErrNotReady"}, 0, <<>>)

\* the return when http.NewRequestWithContext fails: its error, wrapped
StatusRequestError == MkErr({"url.Error"}, 0, <<>>)

\* case <-timer.C: build the request and hand it to client.Do.
SelectTimer ==
    /\ wPc = "select"
    /\ timer.chan
    /\ timer' = [timer EXCEPT !.chan = FALSE]
    /\ IF wCfg.endpointOK
       THEN /\ wPc' = "doing"
            /\ wProbeAt' = now
            /\ wReq' = StatusRequest(WaitEndpoint)
            /\ UNCHANGED wRet
       ELSE /\ wPc' = "done"
            /\ wRet' = [returned |-> TRUE, err |-> StatusRequestError, at |-> now]
            /\ UNCHANGED <<wProbeAt, wReq>>
    /\ UNCHANGED <<wCfg, now, wResp, wLast>>
    /\ UNCHANGED wRest

RetryTimerInitialDelay == TimerSet(InitialDelay)

\* timer.Reset(sleepBetweenAttempts)
RetryTimer == TimerSet(wCfg.sleep)

\* client.Do returns an error: log, timer.Reset(sleepBetweenAttempts), break.
DoFails ==
    /\ wPc = "doing"
    /\ \/ wCfg.server = "any"
       \/ wCfg.server = "timed" /\ now < wCfg.readyAt
       \/ CtxDone
    /\ wLast' = [kind |-> "transport", status |-> 0, body |-> <<>>, at |-> now]
    /\ timer' = RetryTimer
    /\ wPc' = "select"
    /\ UNCHANGED <<wCfg, now, wResp, wProbeAt, wRet, wReq>>
    /\ UNCHANGED wRest

\* client.Do returns a response; its body is still to be read.
DoResponds ==
    /\ wPc = "doing"
    /\ \E status \in ProbeStatuses, body \in ProbeBodies :
          /\ wCfg.server = "timed" =>
                /\ status = StatusOK
                /\ body = IF now >= wCfg.readyAt THEN READY ELSE INITIALIZING
          /\ wResp' = [kind |-> "response", status |-> status, body |-> body, at |-> now]
    /\ wPc' = "reading"
    /\ UNCHANGED <<wCfg, now, timer, wLast, wProbeAt, wRet, wReq>>
    /\ UNCHANGED wRest

\* io.ReadAll fails: log, and nothing else; the loop goes round.
ReadAllFails ==
    /\ wPc = "reading"
    /\ wCfg.server = "any" \/ CtxDone
    /\ wLast' = [kind |-> "readfail", status |-> wResp.status, body |-> <<>>, at |-> now]
    /\ wPc' = "select"
    /\ UNCHANGED <<wCfg, now, timer, wResp, wProbeAt, wRet, wReq>>
    /\ UNCHANGED wRest

\* io.ReadAll succeeds: return nil when ready, else timer.Reset and go round.
ReadAllOK ==
    /\ wPc = "reading"
    /\ wLast' = [wResp EXCEPT !.at = now]
    /\ IF IsReady(wResp.status, wResp.body)
       THEN /\ wPc' = "done"
            /\ wRet' = [returned |-> TRUE, err |-> NilErr, at |-> now]
            /\ UNCHANGED timer
       ELSE /\ wPc' = "select"
            /\ timer' = RetryTimer
            /\ UNCHANGED wRet
    /\ UNCHANGED <<wCfg, now, wResp, wProbeAt, wReq>>
    /\ UNCHANGED wRest

\* The goroutine's own steps.
WaitStep ==
    \/ WaitForReadyCall
    \/ SelectCtxDone
    \/ SelectTimer
    \/ DoFails
    \/ DoResponds
    \/ ReadAllFails
    \/ ReadAllOK

\* Time passes only while the goroutine waits: in select with neither
\* channel ready, in a request or a body read the context has not aborted,
\* or blocked on the drained timer channel.
TimePasses ==
    \/ wPc = "drain"
    \/ wPc = "select" /\ ~CtxDone /\ ~timer.chan
    \/ wPc \in {"doing", "reading"} /\ ~CtxDone

Tick ==
    /\ now < MaxTime
    /\ TimePasses
    /\ now' = now + 1
    /\ timer' = TimerAt(now + 1)
    /\ UNCHANGED <<wPc, wCfg, wResp, wLast, wProbeAt, wRet, wReq>>
    /\ UNCHANGED wRest

WaitNext == WaitStep \/ Tick

----------------------------------------------------------------------------
(* blindfold: the file system, the environment, math/rand *)

TempNames == {"a1", "b2"}

TmpRoot == <<"/tmp/">>

Dir == [kind |-> "dir", data |-> <<>>]

File(data) == [kind |-> "file", data |-> data]

NoPath == <<>>

Range(f) == {f[x] : x \in DOMAIN f}

IsPrefix(d, p) == Len(d) <= Len(p) /\ SubSeq(p, 1, Len(d)) = d

FsAdd(f, p, e) == [q \in DOMAIN f \cup {p} |-> IF q = p THEN e ELSE f[q]]

FsRemoveNothing(f, p) == f

\* os.Remove(p), when it succeeds
FsRemove(f, p) == [q \in DOMAIN f \ {p} |-> f[q]]

FsRemoveAllKeepsFiles(f, d) == [q \in DOMAIN f \ {d} |-> f[q]]

\* os.RemoveAll(d), when it succeeds
FsRemoveAll(f, d) == [q \in {r \in DOMAIN f : ~IsPrefix(d, r)} |-> f[q]]

\* os.MkdirTemp("", ""): the names it may pick
TempDirs == {TmpRoot \o <<n>> : n \in TempNames}

\* os.CreateTemp(dir, prefix): the names it may pick
TempFiles(dir, prefix) ==
    {(IF dir = NoPath THEN TmpRoot ELSE dir) \o <<prefix, n>> : n \in TempNames}

CredentialVars ==
    {"VES_P12_PASSWORD", "VOLT_API_P12_FILE", "VOLT_API_CERT", "VOLT_API_KEY",
     "VOLT_API_URL", "VOLTERRA_TOKEN"}

AmbientPassword == <<"ambient-passphrase">>

AmbientCert == <<"/home/u/cert.pem">>

AmbientToken == <<"ambient-token">>

\* os.Environ() of the calling process
AmbientEnvs ==
    { <<>>,
      << [name |-> "PATH", value |-> <<"/usr/bin">>],
         [name |-> "VES_P12_PASSWORD", value |-> AmbientPassword],
         [name |-> "VOLT_API_P12_FILE", value |-> <<"/home/u/api.p12">>],
         [name |-> "VOLT_API_CERT", value |-> AmbientCert],
         [name |-> "VOLT_API_KEY", value |-> <<"/home/u/key.pem">>],
         [name |-> "VOLT_API_URL", value |-> <<"https://tenant.example/api">>],
         [name |-> "VOLTERRA_TOKEN", value |-> AmbientToken] >>,
      << [name |-> "VOLT_API_URL", value |-> <<"https://f5xc.invalid/api">>],
         [name |-> "HOME", value |-> <<"/home/u">>] >> }

MaxSeed == 1

Worlds == [env : AmbientEnvs, lookPath : {"found", "notfound", "dot"}, seed : 0..MaxSeed]

randomStringChars ==
    <<"a", "b", "c", "d", "e", "f", "g", "h", "i", "j", "k", "l", "m",
      "n", "o", "p", "q", "r", "s", "t", "u", "v", "w", "x", "y", "z",
      "A", "B", "C", "D", "E", "F", "G", "H", "I", "J", "K", "L", "M",
      "N", "O", "P", "Q", "R", "S", "T", "U", "V", "W", "X", "Y", "Z",
      "0", "1", "2", "3", "4", "5", "6", "8", "9", "_">>

\* rand.Intn(n): the i-th draw from a source in the state the seed stands for
RandIntn(seed, i, n) == (seed * 31 + i * (seed + 7) + i * i) % n

\* RandomString(n), its draws following the first `drawn` draws of the source
RandomString(n, seed, drawn) ==
    [i \in 1..n |->
        randomStringChars[RandIntn(seed, drawn + i, Len(randomStringChars)) + 1]]

----------------------------------------------------------------------------
(* blindfold: FindVesctl, ExecuteVesctl, Seal, SealFile *)

VesctlExecutable == <<"vesctl">>

DecoyURL == <<"https://f5xc.invalid/api">>

EmptyParams == [k \in {} |-> NoPath]

OneParam(k, v) == [x \in {k} |-> v]

ExecInputs ==
    [op : {"ExecuteVesctl"}, vesctl : {<<"/usr/bin/vesctl">>},
     args : {<<>>, << <<"version">> >>, << <<"login">>, AmbientToken >>},
     params : {EmptyParams, OneParam("--cert", AmbientCert),
               OneParam("--public-key", <<"/home/u/pk.yaml">>)},
     plaintext : {<<>>}, plaintextPath : {NoPath}]

SealFileInputs ==
    [op : {"SealFile"}, vesctl : {<<>>, <<"vesctl.0.2.37">>},
     args : {<<>>}, params : {EmptyParams},
     plaintext : {<<>>},
     plaintextPath : {NoPath, <<"path/does/not/exist">>, <<"/home/u/plain.txt">>}]

SealInputs ==
    [op : {"Seal"}, vesctl : {<<>>},
     args : {<<>>}, params : {EmptyParams},
     plaintext : {<<>>, <<"p", "w">>}, plaintextPath : {NoPath}]

BlindfoldInputs == ExecInputs \cup SealFileInputs \cup SealInputs

\* what the tool may have written to stdout when it ends
HeaderLine == "Encrypted Secret (Base64 encoded):"

\* a run of bufio.MaxScanTokenSize bytes or more without a newline
LongLine == "<65536 bytes>"

Outputs ==
    { <<>>,
      <<HeaderLine, "\n">>,
      <<HeaderLine, "\n", "AAAAE", "\n">>,
      <<"unknown command", "\n">>,
      <<HeaderLine, "\n", LongLine>>,
      <<"header line", "\n", "payload-line", "\n">>,
      <<HeaderLine, "\r", "\n", "AAAAE", "\r", "\n", "trailer", "\n">>,
      <<HeaderLine, "\n", "AAAAE">>,
      <<HeaderLine, "\n", "\n", "late", "\n">>,
      <<LongLine, "\n", "AAAAE", "\n">> }

NoLocals ==
    [sealDir |-> NoPath, plaintextPath |-> NoPath, vesctlPath |-> NoPath,
     tmpDir |-> NoPath, pubKeyFile |-> NoPath, policyDocumentFile |-> NoPath,
     emptyInputFile |-> NoPath]

NoChild ==
    [state |-> "none", argv |-> [args |-> <<>>, params |-> EmptyParams],
     env |-> <<>>, envSet |-> FALSE, stdin |-> "nil", ended |-> "no", runs |-> 0]

NoVal == [data |-> NilBytes, err |-> NilErr]

InitialFs == [p \in {<<"/home/u/plain.txt">>} |-> File(<<"p", "w">>)]

ExecArgsNoPath ==
    IF bIn.op = "ExecuteVesctl" THEN bIn.args
    ELSE << <<"request">>, <<"secrets">>, <<"encrypt">> >>

\* the args and params ExecuteVesctl is called with
ExecArgs ==
    IF bIn.op = "ExecuteVesctl" THEN bIn.args
    ELSE << <<"request">>, <<"secrets">>, <<"encrypt">>, bLoc.plaintextPath >>

ExecParams ==
    IF bIn.op = "ExecuteVesctl" THEN bIn.params
    ELSE [k \in {"--public-key", "--policy-document"} |->
             IF k = "--public-key" THEN bLoc.pubKeyFile ELSE bLoc.policyDocumentFile]

\* the parameters map literal
BaselineParameters(emptyInputFile) ==
    [k \in {"--p12-bundle", "--cert", "--key", "--config", "--server-urls"} |->
        IF k = "--server-urls" THEN DecoyURL ELSE emptyInputFile]

MergeBaselineWins(parameters, params) ==
    [k \in DOMAIN parameters \cup DOMAIN params |->
        IF k \in DOMAIN parameters THEN parameters[k] ELSE params[k]]

\* for k, v := range params { parameters[k] = v }
MergeParameters(parameters, params) ==
    [k \in DOMAIN parameters \cup DOMAIN params |->
        IF k \in DOMAIN params THEN params[k] ELSE parameters[k]]

\* finalArguments: args in their order, then the key/value pairs of the merged
\* map in the order its iteration yields them, which Go leaves unspecified;
\* the pairs are kept as the map.
FinalArguments(args, params, emptyInputFile) ==
    [args |-> args, params |-> MergeParameters(BaselineParameters(emptyInputFile), params)]

Getenv(name) ==
    IF \E i \in DOMAIN bWorld.env : bWorld.env[i].name = name
    THEN bWorld.env[CHOOSE i \in DOMAIN bWorld.env : bWorld.env[i].name = name].value
    ELSE <<>>

DecoyEnvAmbientToken(emptyInputFile) ==
    << [name |-> "VES_P12_PASSWORD", value |-> RandomString(16, bWorld.seed, 0)],
       [name |-> "VOLT_API_P12_FILE", value |-> emptyInputFile],
       [name |-> "VOLT_API_CERT", value |-> emptyInputFile],
       [name |-> "VOLT_API_KEY", value |-> emptyInputFile],
       [name |-> "VOLT_API_URL", value |-> DecoyURL],
       [name |-> "VOLTERRA_TOKEN", value |-> Getenv("VOLTERRA_TOKEN")] >>

\* the six entries of the cmd.Env literal
DecoyEnv(emptyInputFile) ==
    << [name |-> "VES_P12_PASSWORD", value |-> RandomString(16, bWorld.seed, 0)],
       [name |-> "VOLT_API_P12_FILE", value |-> emptyInputFile],
       [name |-> "VOLT_API_CERT", value |-> emptyInputFile],
       [name |-> "VOLT_API_KEY", value |-> emptyInputFile],
       [name |-> "VOLT_API_URL", value |-> DecoyURL],
       [name |-> "VOLTERRA_TOKEN", value |-> RandomString(16, bWorld.seed, 16)] >>

CmdEnvAppended(emptyInputFile) == bWorld.env \o DecoyEnv(emptyInputFile)

\* cmd.Env = []string{...}
CmdEnv(emptyInputFile) == DecoyEnv(emptyInputFile)

RunErrorUnwrapped(cause) == MkErr({cause}, 0, <<>>)

\* fmt.Errorf("failure while executing vesctl: %w: %w", err, ErrVesctl)
RunError(cause) == MkErr({cause, "ErrVesctl"}, 0, <<>>)

\* bufio's dropCR: a line loses one trailing carriage return
DropCR(line) ==
    IF line # <<>> /\ line[Len(line)] = "\r"
    THEN SubSeq(line, 1, Len(line) - 1) ELSE line

\* bufio.ScanLines over the buffer: the tokens Scan yields, in order
RECURSIVE ScanLines(_, _)
ScanLines(buf, line) ==
    IF buf = <<>>
    THEN IF line = <<>> THEN <<>> ELSE <<DropCR(line)>>
    ELSE IF Head(buf) = "\n"
         THEN <<DropCR(line)>> \o ScanLines(Tail(buf), <<>>)
         ELSE ScanLines(Tail(buf), Append(line, Head(buf)))

ScanSecondLineRequired(buf) ==
    LET lines == ScanLines(buf, <<>>)
    IN  IF Len(lines) >= 2
        THEN [data |-> Bytes(lines[2]), err |-> NilErr]
        ELSE [data |-> NilBytes, err |-> MkErr({"no payload line"}, 0, <<>>)]

ScanSecondLineKeepsPartial(buf) ==
    LET lines == ScanLines(buf, <<>>)
        tooLong(i) == Len(lines) >= i /\ LongLine \in Range(lines[i])
    IN  IF tooLong(1) \/ tooLong(2)
        THEN [data |-> Bytes(<<>>), err |-> MkErr({"bufio.ErrTooLong"}, 0, <<>>)]
        ELSE IF Len(lines) >= 2
             THEN [data |-> Bytes(lines[2]), err |-> NilErr]
             ELSE [data |-> NilBytes, err |-> NilErr]

\* the scan loop of SealFile and its return
ScanSecondLine(buf) ==
    LET lines == ScanLines(buf, <<>>)
        tooLong(i) == Len(lines) >= i /\ LongLine \in Range(lines[i])
    IN  IF tooLong(1) \/ tooLong(2)
        THEN [data |-> NilBytes, err |-> MkErr({"bufio.ErrTooLong"}, 0, <<>>)]
        ELSE IF Len(lines) >= 2
             THEN [data |-> Bytes(lines[2]), err |-> NilErr]
             ELSE [data |-> NilBytes, err |-> NilErr]

SealFileResultAlwaysScans(val, buf) ==
    [data |-> ScanSecondLine(buf).data, err |-> val.err]

\* SealFile once ExecuteVesctl is back: `return nil, err`, or the scan
SealFileResult(val, buf) ==
    IF ~val.err.isNil THEN [data |-> NilBytes, err |-> val.err]
    ELSE ScanSecondLine(buf)

BlindfoldIdle ==
    /\ bPc = "idle"
    /\ bCtxDone = FALSE
    /\ fs = InitialFs
    /\ bMade = {}
    /\ bLoc = NoLocals
    /\ child = NoChild
    /\ bBuf = <<>>
    /\ bVal = NoVal
    /\ bLog = {}
    /\ bRet = [returned |-> FALSE, data |-> NilBytes, err |-> NilErr]

BlindfoldInit ==
    /\ BlindfoldIdle
    /\ bIn \in BlindfoldInputs
    /\ bWorld \in Worlds

BlindfoldParked ==
    /\ BlindfoldIdle
    /\ bIn = [op |-> "Seal", vesctl |-> <<>>, args |-> <<>>, params |-> EmptyParams,
              plaintext |-> <<>>, plaintextPath |-> NoPath]
    /\ bWorld = [env |-> <<>>, lookPath |-> "found", seed |-> 0]

\* the values the records of FindVesctl, Seal, SealFile and ExecuteVesctl
\* carry: vesctl, name, plaintextPath, args, params, finalArguments, and the
\* paths whose removal or closing failed
BlindfoldLogValues ==
    {bIn.vesctl, bLoc.vesctlPath, bLoc.plaintextPath, bLoc.sealDir, bLoc.tmpDir,
     bLoc.emptyInputFile}
    \cup Range(ExecArgs) \cup Range(ExecParams)
    \cup Range(MergeParameters(BaselineParameters(bLoc.emptyInputFile), ExecParams))

\* the exported function returns what is on its way out
Returned(val) == [returned |-> TRUE, data |-> val.data, err |-> val.err]

Failure(cause) == [data |-> NilBytes, err |-> MkErr({cause}, 0, <<>>)]

\* the caller enters Seal, SealFile or ExecuteVesctl
BlindfoldCall ==
    /\ bPc = "idle"
    /\ bPc' = CASE bIn.op = "Seal" -> "seal.mkdir"
                [] bIn.op = "SealFile" -> "sf.find"
                [] OTHER -> "ev.create"
    /\ bLoc' = [bLoc EXCEPT !.plaintextPath = bIn.plaintextPath,
                            !.vesctlPath = IF bIn.op = "ExecuteVesctl"
                                           THEN bIn.vesctl ELSE NoPath]
    /\ UNCHANGED <<bIn, bWorld, bCtxDone, fs, bMade, child, bBuf, bVal, bLog, bRet>>
    /\ UNCHANGED bRest

\* the context is cancelled or its deadline passes
Cancel ==
    /\ bPc \notin {"idle", "done"}
    /\ ~bCtxDone
    /\ bCtxDone' = TRUE
    /\ UNCHANGED <<bPc, bIn, bWorld, fs, bMade, bLoc, child, bBuf, bVal, bLog, bRet>>
    /\ UNCHANGED bRest

\* Seal: os.MkdirTemp("", "") and the deferred RemoveAll
SealMkdirTemp ==
    /\ bPc = "seal.mkdir"
    /\ \/ /\ bVal' = Failure("os.MkdirTemp")
          /\ bRet' = Returned(bVal')
          /\ bPc' = "done"
          /\ UNCHANGED <<fs, bMade, bLoc>>
       \/ \E d \in TempDirs \ DOMAIN fs :
             /\ fs' = FsAdd(fs, d, Dir)
             /\ bMade' = bMade \cup {d}
             /\ bLoc' = [bLoc EXCEPT !.sealDir = d]
             /\ bPc' = "seal.create"
             /\ UNCHANGED <<bVal, bRet>>
    /\ UNCHANGED <<bIn, bWorld, bCtxDone, child, bBuf, bLog>>
    /\ UNCHANGED bRest

\* Seal: os.CreateTemp(tmpDir, "blindfold")
SealCreateTemp ==
    /\ bPc = "seal.create"
    /\ \/ /\ bVal' = Failure("os.CreateTemp")
          /\ bPc' = "seal.removeall"
          /\ UNCHANGED <<fs, bMade, bLoc>>
       \/ \E f \in TempFiles(bLoc.sealDir, "/blindfold") \ DOMAIN fs :
             /\ fs' = FsAdd(fs, f, File(<<>>))
             /\ bMade' = bMade \cup {f}
             /\ bLoc' = [bLoc EXCEPT !.plaintextPath = f]
             /\ bPc' = "seal.write"
             /\ UNCHANGED bVal
    /\ UNCHANGED <<bIn, bWorld, bCtxDone, child, bBuf, bLog, bRet>>
    /\ UNCHANGED bRest

\* Seal: plaintextFile.Write(plaintext), then plaintextFile.Close()
SealWriteClose ==
    /\ bPc = "seal.write"
    /\ \/ /\ \E cause \in {"File.Write", "File.Close"} : bVal' = Failure(cause)
          /\ bPc' = "seal.removeall"
          /\ UNCHANGED fs
       \/ /\ fs' = [fs EXCEPT ![bLoc.plaintextPath] = File(bIn.plaintext)]
          /\ bPc' = "sf.find"
          /\ UNCHANGED bVal
    /\ UNCHANGED <<bIn, bWorld, bCtxDone, bMade, bLoc, child, bBuf, bLog, bRet>>
    /\ UNCHANGED bRest

\* exec.LookPath(name), by what the calling process's PATH holds
LookPath(name) ==
    CASE bWorld.lookPath = "found" -> [path |-> <<"/usr/bin/">> \o name, err |-> "nil"]
      [] bWorld.lookPath = "dot" -> [path |-> name, err |-> "exec.ErrDot"]
      [] OTHER -> [path |-> NoPath, err |-> "exec.ErrNotFound"]

FindVesctlNoDefault(name) ==
    LET found == LookPath(name)
    IN  IF found.err = "exec.ErrDot" THEN [found EXCEPT !.err = "nil"] ELSE found

\* FindVesctl(name)
FindVesctl(name) ==
    LET found == LookPath(IF name = <<>> THEN VesctlExecutable ELSE name)
    IN  IF found.err = "exec.ErrDot" THEN [found EXCEPT !.err = "nil"] ELSE found

\* where SealFile's return goes: to its caller Seal's deferred RemoveAll, or out
AfterSealFile == IF bIn.op = "Seal" THEN "seal.removeall" ELSE "done"

\* SealFile: FindVesctl(vesctl)
SealFileFind ==
    /\ bPc = "sf.find"
    /\ LET found == FindVesctl(bIn.vesctl)
       IN  IF found.err # "nil"
           THEN /\ bVal' = Failure(found.err)
                /\ bPc' = AfterSealFile
                /\ bRet' = IF bPc' = "done" THEN Returned(bVal') ELSE bRet
                /\ UNCHANGED bLoc
           ELSE /\ bLoc' = [bLoc EXCEPT !.vesctlPath = found.path]
                /\ bPc' = "sf.mkdir"
                /\ UNCHANGED <<bVal, bRet>>
    /\ UNCHANGED <<bIn, bWorld, bCtxDone, fs, bMade, child, bBuf, bLog>>
    /\ UNCHANGED bRest

\* SealFile: os.MkdirTemp("", "") and the deferred RemoveAll
SealFileMkdirTemp ==
    /\ bPc = "sf.mkdir"
    /\ \/ /\ bVal' = Failure("os.MkdirTemp")
          /\ bPc' = AfterSealFile
          /\ bRet' = IF bPc' = "done" THEN Returned(bVal') ELSE bRet
          /\ UNCHANGED <<fs, bMade, bLoc>>
       \/ \E d \in TempDirs \ DOMAIN fs :
             /\ fs' = FsAdd(fs, d, Dir)
             /\ bMade' = bMade \cup {d}
             /\ bLoc' = [bLoc EXCEPT !.tmpDir = d]
             /\ bPc' = "sf.pubkey"
             /\ UNCHANGED <<bVal, bRet>>
    /\ UNCHANGED <<bIn, bWorld, bCtxDone, child, bBuf, bLog>>
    /\ UNCHANGED bRest

\* createTempYAMLEnvelope(obj, tmpDir): the file is created, then written and
\* closed; a failure after the creation leaves the file in tmpDir.
CreateTempYAMLEnvelope(which, content, next) ==
    \/ /\ bVal' = Failure("os.CreateTemp")
       /\ bPc' = "sf.removeall"
       /\ UNCHANGED <<fs, bMade, bLoc>>
    \/ \E f \in TempFiles(bLoc.tmpDir, "/blindfold") \ DOMAIN fs :
          /\ bMade' = bMade \cup {f}
          /\ \/ /\ \E cause \in {"File.Write", "File.Close"} : bVal' = Failure(cause)
                /\ fs' = FsAdd(fs, f, File(<<>>))
                /\ bPc' = "sf.removeall"
                /\ UNCHANGED bLoc
             \/ /\ fs' = FsAdd(fs, f, File(content))
                /\ bLoc' = [bLoc EXCEPT ![which] = f]
                /\ bPc' = next
                /\ UNCHANGED bVal

\* SealFile: the PublicKey envelope
SealFilePublicKey ==
    /\ bPc = "sf.pubkey"
    /\ CreateTempYAMLEnvelope("pubKeyFile", <<"data: PublicKey">>, "sf.policy")
    /\ UNCHANGED <<bIn, bWorld, bCtxDone, child, bBuf, bLog, bRet>>
    /\ UNCHANGED bRest

\* SealFile: the SecretPolicyDocument envelope
SealFilePolicyDocument ==
    /\ bPc = "sf.policy"
    /\ CreateTempYAMLEnvelope("policyDocumentFile", <<"data: SecretPolicyDocument">>, "ev.create")
    /\ UNCHANGED <<bIn, bWorld, bCtxDone, child, bBuf, bLog, bRet>>
    /\ UNCHANGED bRest

AfterExecuteRetries ==
    IF ~bVal.err.isNil /\ child.runs = 1 THEN "ev.create"
    ELSE IF bIn.op = "ExecuteVesctl" THEN "done" ELSE "sf.scan"

\* where ExecuteVesctl's return goes: back into SealFile, or out
AfterExecute == IF bIn.op = "ExecuteVesctl" THEN "done" ELSE "sf.scan"

\* ExecuteVesctl: os.CreateTemp("", "vesctl") and the deferred os.Remove
ExecuteCreateTemp ==
    /\ bPc = "ev.create"
    /\ \/ /\ bVal' = Failure("os.CreateTemp")
          /\ bPc' = AfterExecute
          /\ bRet' = IF bPc' = "done" THEN Returned(bVal') ELSE bRet
          /\ UNCHANGED <<fs, bMade, bLoc>>
       \/ \E f \in TempFiles(NoPath, "vesctl") \ DOMAIN fs :
             /\ fs' = FsAdd(fs, f, File(<<>>))
             /\ bMade' = bMade \cup {f}
             /\ bLoc' = [bLoc EXCEPT !.emptyInputFile = f]
             /\ bPc' = "ev.close"
             /\ UNCHANGED <<bVal, bRet>>
    /\ UNCHANGED <<bIn, bWorld, bCtxDone, child, bBuf, bLog>>
    /\ UNCHANGED bRest

\* ExecuteVesctl: emptyFile.Close()
ExecuteClose ==
    /\ bPc = "ev.close"
    /\ \/ /\ bVal' = Failure("File.Close")
          /\ bPc' = "ev.remove"
       \/ /\ bPc' = "ev.start"
          /\ UNCHANGED bVal
    /\ UNCHANGED <<bIn, bWorld, bCtxDone, fs, bMade, bLoc, child, bBuf, bLog, bRet>>
    /\ UNCHANGED bRest

AfterStartReturns == "ev.remove"

\* cmd.Run is Start followed by Wait
AfterStart == "ev.wait"

\* ExecuteVesctl: the command is built and cmd.Run starts it.  Start gives
\* up at once when the context is already done, and fails when the
\* executable cannot be run; a relative path LookPath found in the current
\* directory is refused by exec.Command.
ExecuteStart ==
    /\ bPc = "ev.start"
    /\ \/ /\ bCtxDone
          /\ bVal' = [data |-> NilBytes, err |-> RunError("context.Canceled")]
          /\ bPc' = "ev.remove"
          /\ child' = [child EXCEPT !.state = "not started", !.runs = @ + 1]
       \/ /\ ~bCtxDone
          /\ \E cause \in {"fork/exec", "exec.ErrDot"} :
                /\ cause = "exec.ErrDot" <=>
                      (bIn.op # "ExecuteVesctl" /\ bWorld.lookPath = "dot")
                /\ bVal' = [data |-> NilBytes, err |-> RunError(cause)]
          /\ bPc' = "ev.remove"
          /\ child' = [child EXCEPT !.state = "not started", !.runs = @ + 1]
       \/ /\ ~bCtxDone
          /\ bIn.op = "ExecuteVesctl" \/ bWorld.lookPath # "dot"
          /\ child' = [state |-> "running",
                       argv |-> FinalArguments(ExecArgs, ExecParams, bLoc.emptyInputFile),
                       env |-> CmdEnv(bLoc.emptyInputFile), envSet |-> TRUE,
                       stdin |-> "nil", ended |-> "no", runs |-> child.runs + 1]
          /\ bPc' = AfterStart
          /\ UNCHANGED bVal
    /\ UNCHANGED <<bIn, bWorld, bCtxDone, fs, bMade, bLoc, bBuf, bLog, bRet>>
    /\ UNCHANGED bRest

\* vesctl exits 0 from `request secrets encrypt <path>` only when it could
\* read the plaintext file: an empty or nonexistent path is rejected.
ToolCanRead ==
    \/ bIn.op = "ExecuteVesctl"
    \/ /\ bLoc.plaintextPath \in DOMAIN fs
       /\ fs[bLoc.plaintextPath].kind = "file"

RunResultKilledIsNil(ended) ==
    IF ended \in {"exit 0", "killed"} THEN NoVal
    ELSE [data |-> NilBytes, err |-> RunError("exec.ExitError")]

\* what cmd.Run hands back once the child has ended, wrapped by ExecuteVesctl
RunResult(ended) ==
    IF ended = "exit 0" THEN NoVal
    ELSE [data |-> NilBytes,
          err |-> RunError(IF ended = "killed" THEN "context.Canceled"
                           ELSE "exec.ExitError")]

\* ExecuteVesctl: cmd.Run waits for the child, which exits by itself or is
\* killed once the context is done.
ExecuteWait ==
    /\ bPc = "ev.wait"
    /\ \E out \in Outputs, ended \in {"exit 0", "exit 1", "killed"} :
          /\ ended = "killed" => bCtxDone
          /\ ended = "exit 0" => ToolCanRead
          /\ bBuf' = out
          /\ child' = [child EXCEPT !.state = "exited", !.ended = ended]
          /\ bVal' = RunResult(ended)
    /\ bPc' = "ev.remove"
    /\ UNCHANGED <<bIn, bWorld, bCtxDone, fs, bMade, bLoc, bLog, bRet>>
    /\ UNCHANGED bRest

DeferredAssignsResult(val, cause, failed) ==
    IF failed THEN Failure(cause) ELSE val

\* the deferred closure assigns the removal error to the local err; the
\* results of the function are unnamed and were set by the return statement
Deferred(val, cause, failed) == val

\* ExecuteVesctl returns: the deferred os.Remove(emptyInputFile) runs, and a
\* failure of it is logged.
ExecuteRemove ==
    /\ bPc = "ev.remove"
    /\ \/ /\ fs' = FsRemove(fs, bLoc.emptyInputFile)
          /\ bVal' = Deferred(bVal, "os.Remove", FALSE)
          /\ UNCHANGED bLog
       \/ /\ bLog' = bLog \cup {bLoc.emptyInputFile}
          /\ bVal' = Deferred(bVal, "os.Remove", TRUE)
          /\ UNCHANGED fs
    /\ bPc' = AfterExecute
    /\ bRet' = IF bPc' = "done" THEN Returned(bVal') ELSE bRet
    /\ UNCHANGED <<bIn, bWorld, bCtxDone, bMade, bLoc, child, bBuf>>
    /\ UNCHANGED bRest

\* SealFile after ExecuteVesctl: return its error, or scan the buffer
SealFileScan ==
    /\ bPc = "sf.scan"
    /\ bVal' = SealFileResult(bVal, bBuf)
    /\ bPc' = "sf.removeall"
    /\ UNCHANGED <<bIn, bWorld, bCtxDone, fs, bMade, bLoc, child, bBuf, bLog, bRet>>
    /\ UNCHANGED bRest

\* SealFile returns: the deferred os.RemoveAll(tmpDir) runs
SealFileRemoveAll ==
    /\ bPc = "sf.removeall"
    /\ \/ /\ fs' = FsRemoveAll(fs, bLoc.tmpDir)
          /\ bVal' = Deferred(bVal, "os.RemoveAll", FALSE)
          /\ UNCHANGED bLog
       \/ /\ bLog' = bLog \cup {bLoc.tmpDir}
          /\ bVal' = Deferred(bVal, "os.RemoveAll", TRUE)
          /\ UNCHANGED fs
    /\ bPc' = AfterSealFile
    /\ bRet' = IF bPc' = "done" THEN Returned(bVal') ELSE bRet
    /\ UNCHANGED <<bIn, bWorld, bCtxDone, bMade, bLoc, child, bBuf>>
    /\ UNCHANGED bRest

\* Seal returns: the deferred os.RemoveAll(tmpDir) runs
SealRemoveAll ==
    /\ bPc = "seal.removeall"
    /\ \/ /\ fs' = FsRemoveAll(fs, bLoc.sealDir)
          /\ bVal' = Deferred(bVal, "os.RemoveAll", FALSE)
          /\ UNCHANGED bLog
       \/ /\ bLog' = bLog \cup {bLoc.sealDir}
          /\ bVal' = Deferred(bVal, "os.RemoveAll", TRUE)
          /\ UNCHANGED fs
    /\ bPc' = "done"
    /\ bRet' = Returned(bVal')
    /\ UNCHANGED <<bIn, bWorld, bCtxDone, bMade, bLoc, child, bBuf>>
    /\ UNCHANGED bRest

BlindfoldNext ==
    \/ BlindfoldCall
    \/ Cancel
    \/ SealMkdirTemp
    \/ SealCreateTemp
    \/ SealWriteClose
    \/ SealFileFind
    \/ SealFileMkdirTemp
    \/ SealFilePublicKey
    \/ SealFilePolicyDocument
    \/ ExecuteCreateTemp
    \/ ExecuteClose
    \/ ExecuteStart
    \/ ExecuteWait
    \/ ExecuteRemove
    \/ SealFileScan
    \/ SealFileRemoveAll
    \/ SealRemoveAll

----------------------------------------------------------------------------
(* ExecuteVesctl from the parameters literal to exec.CommandContext: the two
   range loops, one iteration a step.  The order in which a range yields the
   keys of a map is unspecified, and every order is taken here. *)

ArgsDecoy == TmpRoot \o <<"vesctl", "a1">>

TwoParams(k1, v1, k2, v2) == [k \in {k1, k2} |-> IF k = k1 THEN v1 ELSE v2]

\* the calls of ExecuteVesctl: a caller's own, with params that are empty,
\* override one or two baseline keys, and the call SealFile makes
ArgsInputs ==
    [vesctl : {<<"/usr/bin/vesctl">>},
     args : {<<>>, << <<"version">> >>, << <<"--cert">>, AmbientCert >>},
     params : {EmptyParams,
               OneParam("--cert", AmbientCert),
               TwoParams("--server-urls", <<"https://tenant.example/api">>,
                         "--key", <<"/home/u/key.pem">>)},
     emptyInputFile : {ArgsDecoy}]
    \cup
    [vesctl : {<<"/usr/bin/vesctl">>},
     args : {<< <<"request">>, <<"secrets">>, <<"encrypt">>, <<"/home/u/plain.txt">> >>},
     params : {TwoParams("--public-key", TmpRoot \o <<"a1", "a1">>,
                         "--policy-document", TmpRoot \o <<"a1", "b2">>)},
     emptyInputFile : {ArgsDecoy}]

ArgsInit ==
    /\ aPc = "idle"
    /\ aIn \in ArgsInputs
    /\ aParameters = EmptyParams
    /\ aKeys = {}
    /\ aFinal = <<>>
    /\ aCmd = <<>>

ArgsUnused ==
    /\ aPc = "unused"
    /\ aIn = [vesctl |-> <<>>, args |-> <<>>, params |-> EmptyParams,
              emptyInputFile |-> NoPath]
    /\ aParameters = EmptyParams
    /\ aKeys = {}
    /\ aFinal = <<>>
    /\ aCmd = <<>>

\* parameters := map[string]string{...}
ArgsParameters ==
    /\ aPc = "idle"
    /\ aParameters' = BaselineParameters(aIn.emptyInputFile)
    /\ aKeys' = DOMAIN aIn.params
    /\ aPc' = "merge"
    /\ UNCHANGED <<aIn, aFinal, aCmd>>
    /\ UNCHANGED aRest

\* for k, v := range params { parameters[k] = v }, and finalArguments := args
\* once the range is over
ArgsMerge ==
    /\ aPc = "merge"
    /\ \/ \E k \in aKeys :
             /\ aParameters' = MergeParameters(aParameters, OneParam(k, aIn.params[k]))
             /\ aKeys' = aKeys \ {k}
             /\ UNCHANGED <<aPc, aFinal>>
       \/ /\ aKeys = {}
          /\ aFinal' = aIn.args
          /\ aKeys' = DOMAIN aParameters
          /\ aPc' = "append"
          /\ UNCHANGED aParameters
    /\ UNCHANGED <<aIn, aCmd>>
    /\ UNCHANGED aRest

\* for k, v := range parameters { finalArguments = append(finalArguments, k, v) },
\* and exec.CommandContext(ctx, vesctl, finalArguments...) once the range is over
ArgsAppend ==
    /\ aPc = "append"
    /\ \/ \E k \in aKeys :
             /\ aFinal' = aFinal \o << <<k>>, aParameters[k] >>
             /\ aKeys' = aKeys \ {k}
             /\ UNCHANGED <<aPc, aCmd>>
       \/ /\ aKeys = {}
          /\ aCmd' = <<aIn.vesctl>> \o aFinal
          /\ aPc' = "built"
          /\ UNCHANGED <<aFinal, aKeys>>
    /\ UNCHANGED <<aIn, aParameters>>
    /\ UNCHANGED aRest

ArgsNext ==
    \/ ArgsParameters
    \/ ArgsMerge
    \/ ArgsAppend

----------------------------------------------------------------------------
(* The f5xc client: the options of NewClient, NewClient and EnvelopeAPICall.
   An endpoint is its scheme, its host and its path; a certificate is named
   by the file it was loaded from; what the file system and the decoders do
   to an option is part of the option. *)

MaxOptions == 3

NoCert == <<>>

NoPool == [isNil |-> TRUE, certs |-> {}]

NoURL == <<>>

\* cfg := &config{}
EmptyConfig == [EndpointURL |-> NoURL, caCertPool |-> NoPool, Cert |-> NoCert, AuthToken |-> <<>>]

ClientSentinels ==
    {"ErrFailedToAppendCACert", "ErrMissingAuthentication", "ErrInvalidEndpointURL",
     "ErrMissingURL", "ErrUnauthorized", "ErrForbidden", "ErrUnexpectedHTTPStatus"}

Applied(c) == [cfg |-> c, err |-> NilErr]

Refused(c, cause) == [cfg |-> c, err |-> MkErr(cause, 0, <<>>)]

\* x509.SystemCertPool() when the pool is still nil
WithSystemPool(pool) == IF pool.isNil THEN [isNil |-> FALSE, certs |-> {<<"system">>}] ELSE pool

\* url.ParseRequestURI and the three cases of the switch
WithAPIEndpoint(apiEndpoint, c) ==
    IF apiEndpoint[1] = "" THEN Refused(c, {"ErrInvalidEndpointURL"})
    ELSE IF apiEndpoint[1] # "https://" THEN Refused(c, {"ErrInvalidEndpointURL"})
    ELSE IF apiEndpoint[2] = "" THEN Refused(c, {"ErrInvalidEndpointURL"})
    ELSE Applied([c EXCEPT !.EndpointURL = apiEndpoint])

WithCACert(caCert, outcome, c) ==
    CASE outcome = "read fails" -> Refused(c, {"fs.PathError"})
      [] outcome = "append fails" ->
            Refused([c EXCEPT !.caCertPool = WithSystemPool(@)], {"ErrFailedToAppendCACert"})
      [] OTHER ->
            Applied([c EXCEPT !.caCertPool =
                        [isNil |-> FALSE, certs |-> WithSystemPool(@).certs \cup {caCert}]])

WithP12Certificate(path, outcome, c) ==
    CASE outcome = "read fails" -> Refused(c, {"fs.PathError"})
      [] outcome = "decode fails" -> Refused(c, {"pkcs12"})
      [] outcome = "ok with chain" ->
            Applied([c EXCEPT !.caCertPool =
                                 [isNil |-> FALSE,
                                  certs |-> WithSystemPool(@).certs \cup {<<"ca of">> \o path}],
                              !.Cert = <<"p12">> \o path,
                              !.AuthToken = <<>>])
      [] OTHER -> Applied([c EXCEPT !.Cert = <<"p12">> \o path, !.AuthToken = <<>>])

WithCertKeyPair(certPath, keyPath, outcome, c) ==
    IF outcome = "load fails" THEN Refused(c, {"tls"})
    ELSE Applied([c EXCEPT !.Cert = <<"pair">> \o certPath \o keyPath, !.AuthToken = <<>>])

WithAuthTokenKeepsCert(token, c) == Applied([c EXCEPT !.AuthToken = token])

WithAuthToken(token, c) == Applied([c EXCEPT !.AuthToken = token, !.Cert = NoCert])

\* option(cfg)
ApplyOption(o, c) ==
    CASE o.name = "WithAPIEndpoint" -> WithAPIEndpoint(o.arg, c)
      [] o.name = "WithCACert" -> WithCACert(o.arg, o.outcome, c)
      [] o.name = "WithP12Certificate" -> WithP12Certificate(o.arg, o.outcome, c)
      [] o.name = "WithCertKeyPair" -> WithCertKeyPair(o.arg, <<"key.pem">>, o.outcome, c)
      [] OTHER -> WithAuthToken(o.arg, c)

ClientOptions ==
    [name : {"WithAPIEndpoint"}, outcome : {"ok"},
     arg : {<<"https://", "tenant.example", "/api">>, <<"http://", "tenant.example", "/api">>,
            <<"https://", "", "/api">>, <<"", "tenant.example", "/api">>}]
    \cup [name : {"WithCACert"}, outcome : {"ok", "read fails", "append fails"},
          arg : {<<"ca.pem">>}]
    \cup [name : {"WithP12Certificate"}, outcome : {"ok", "ok with chain", "decode fails"},
          arg : {<<"id.p12">>}]
    \cup [name : {"WithCertKeyPair"}, outcome : {"ok", "load fails"}, arg : {<<"cert.pem">>}]
    \cup [name : {"WithAuthToken"}, outcome : {"ok"}, arg : {<<>>, <<"t0k3n">>}]

\* the resource a response body may carry
PublicKeys == {[KeyVersion |-> 1, Tenant |-> "acme"]}

ZeroPublicKey == [KeyVersion |-> 0, Tenant |-> ""]

PublicKeyJSON(k) == "{\"key_version\":" \o ToString(k.KeyVersion) \o ",\"tenant\":\"" \o k.Tenant \o "\"}"

\* response bodies, as their JSON tokens
EnvelopeBodies ==
    {<<"{", "\"data\":", PublicKeyJSON(k), "}">> : k \in PublicKeys}
    \cup {<<"{", "\"data\":", "null", "}">>, <<"{", "}">>, <<"null">>,
          <<"{", "\"data\":">>, <<"<html>">>, <<>>}

EnvelopeStatuses == {200, 204, 401, 403, 404, 500}

\* json.Unmarshal(data, envelope): a null and an object without a data
\* member leave the envelope as it was, a data member of null leaves Data so
NoResource == [isNil |-> TRUE, value |-> ZeroPublicKey]

Resource(v) == [isNil |-> FALSE, value |-> v]

UnmarshalEnvelope(data) ==
    IF data = <<"null">> \/ data = <<"{", "}">> \/ data = <<"{", "\"data\":", "null", "}">>
    THEN [ok |-> TRUE, Data |-> ZeroPublicKey]
    ELSE IF /\ Len(data) = 4
            /\ data[1] = "{" /\ data[2] = "\"data\":" /\ data[4] = "}"
            /\ \E k \in PublicKeys : PublicKeyJSON(k) = data[3]
    THEN [ok |-> TRUE, Data |-> CHOOSE k \in PublicKeys : PublicKeyJSON(k) = data[3]]
    ELSE [ok |-> FALSE, Data |-> ZeroPublicKey]

EnvelopeClassifyNotFoundIsError(status, body, readOK) ==
    IF status = 200 /\ readOK /\ UnmarshalEnvelope(body).ok
    THEN [resource |-> Resource(UnmarshalEnvelope(body).Data), err |-> NilErr]
    ELSE [resource |-> NoResource, err |-> MkErr({"ErrUnexpectedHTTPStatus"}, status, <<>>)]

\* the switch on resp.StatusCode and the return that follows it
EnvelopeClassify(status, body, readOK) ==
    CASE status = 200 ->
            IF ~readOK THEN [resource |-> NoResource, err |-> MkErr({"io.ReadAll"}, 0, <<>>)]
            ELSE IF ~UnmarshalEnvelope(body).ok
            THEN [resource |-> NoResource, err |-> MkErr({"json.SyntaxError"}, 0, <<>>)]
            ELSE [resource |-> Resource(UnmarshalEnvelope(body).Data), err |-> NilErr]
      [] status = 401 -> [resource |-> NoResource, err |-> MkErr({"ErrUnauthorized"}, 0, <<>>)]
      [] status = 403 -> [resource |-> NoResource, err |-> MkErr({"ErrForbidden"}, 0, <<>>)]
      [] status = 404 -> [resource |-> NoResource, err |-> NilErr]
      [] OTHER ->
            [resource |-> NoResource, err |-> MkErr({"ErrUnexpectedHTTPStatus"}, status, <<>>)]

ClientInputs ==
    [op : {"NewClient"}, options : SeqsUpTo(ClientOptions, MaxOptions)]
    \cup [op : {"EnvelopeAPICall"}, options : {<<>>}]

NoClient == [isNil |-> TRUE, authToken |-> <<>>, endpoint |-> NoURL,
             Certificates |-> {}, RootCAs |-> NoPool]

NoClientReturn ==
    [returned |-> FALSE, client |-> NoClient, resource |-> NoResource, err |-> NilErr]

NoAPIResponse == [kind |-> "none", status |-> 0, body |-> <<>>, readOK |-> FALSE]

ClientIdle ==
    /\ kCfg = EmptyConfig
    /\ kIdx = 0
    /\ kResp = NoAPIResponse
    /\ kRet = NoClientReturn

ClientInit ==
    /\ kPc = "idle"
    /\ kIn \in ClientInputs
    /\ ClientIdle

ClientUnused ==
    /\ kPc = "unused"
    /\ kIn = [op |-> "NewClient", options |-> <<>>]
    /\ ClientIdle

\* NewClient: cfg := &config{}
NewClientCall ==
    /\ kPc = "idle"
    /\ kIn.op = "NewClient"
    /\ kCfg' = EmptyConfig
    /\ kIdx' = 1
    /\ kPc' = "options"
    /\ UNCHANGED <<kIn, kResp, kRet>>
    /\ UNCHANGED kRest

\* NewClient: one turn of the loop over options
NewClientOption ==
    /\ kPc = "options"
    /\ kIdx <= Len(kIn.options)
    /\ LET r == ApplyOption(kIn.options[kIdx], kCfg)
       IN  /\ kCfg' = r.cfg
           /\ IF r.err.isNil
              THEN /\ kIdx' = kIdx + 1
                   /\ UNCHANGED <<kPc, kRet>>
              ELSE /\ kRet' = [kRet EXCEPT !.returned = TRUE, !.err = r.err]
                   /\ kPc' = "done"
                   /\ UNCHANGED kIdx
    /\ UNCHANGED <<kIn, kResp>>
    /\ UNCHANGED kRest

\* NewClient: the switch on cfg and the client it builds
NewClient ==
    /\ kPc = "options"
    /\ kIdx > Len(kIn.options)
    /\ kRet' = IF kCfg.EndpointURL = NoURL
               THEN [kRet EXCEPT !.returned = TRUE, !.err = MkErr({"ErrMissingURL"}, 0, <<>>)]
               ELSE IF kCfg.Cert = NoCert /\ kCfg.AuthToken = <<>>
               THEN [kRet EXCEPT !.returned = TRUE,
                                 !.err = MkErr({"ErrMissingAuthentication"}, 0, <<>>)]
               ELSE [kRet EXCEPT !.returned = TRUE,
                                 !.client = [isNil |-> FALSE, authToken |-> kCfg.AuthToken,
                                             endpoint |-> kCfg.EndpointURL,
                                             Certificates |-> IF kCfg.Cert = NoCert THEN {}
                                                              ELSE {kCfg.Cert},
                                             RootCAs |-> kCfg.caCertPool]]
    /\ kPc' = "done"
    /\ UNCHANGED <<kIn, kCfg, kIdx, kResp>>
    /\ UNCHANGED kRest

\* EnvelopeAPICall hands the request to client.Do
EnvelopeAPICall ==
    /\ kPc = "idle"
    /\ kIn.op = "EnvelopeAPICall"
    /\ kPc' = "doing"
    /\ UNCHANGED <<kIn, kCfg, kIdx, kResp, kRet>>
    /\ UNCHANGED kRest

\* client.Do returns an error
EnvelopeDoFails ==
    /\ kPc = "doing"
    /\ \E cause \in TransportFailures :
          /\ kResp' = [NoAPIResponse EXCEPT !.kind = "transport"]
          /\ kRet' = [kRet EXCEPT !.returned = TRUE, !.err = MkErr({cause}, 0, <<>>)]
    /\ kPc' = "done"
    /\ UNCHANGED <<kIn, kCfg, kIdx>>
    /\ UNCHANGED kRest

\* client.Do returns a response
EnvelopeResponds ==
    /\ kPc = "doing"
    /\ \E status \in EnvelopeStatuses, body \in EnvelopeBodies, readOK \in BOOLEAN :
          LET r == EnvelopeClassify(status, body, readOK)
          IN  /\ kResp' = [kind |-> "response", status |-> status, body |-> body,
                           readOK |-> readOK]
              /\ kRet' = [kRet EXCEPT !.returned = TRUE, !.resource = r.resource,
                                      !.err = r.err]
    /\ kPc' = "done"
    /\ UNCHANGED <<kIn, kCfg, kIdx>>
    /\ UNCHANGED kRest

F5xcNext ==
    \/ NewClientCall
    \/ NewClientOption
    \/ NewClient
    \/ EnvelopeAPICall
    \/ EnvelopeDoFails
    \/ EnvelopeResponds

----------------------------------------------------------------------------
(* Seal, SealFile and ExecuteVesctl called from two goroutines of one process.
   The calls of the file system succeed here, and the tool is found; their
   failures are the subject of SpecBlindfold. *)

Invocations == {1, 2}

ConcNames == {"a1", "b2", "c3", "d4"}

\* os.MkdirTemp("", ""): the names it may pick
ConcDirs == {TmpRoot \o <<n>> : n \in ConcNames}

\* the args slice of a caller of ExecuteVesctl
CallerArgs == << <<"version">> >>

\* what one goroutine calls.  shared: its args argument is the slice value
\* the other goroutine may be passing too, rather than a slice of its own.
ConcInputs(i) ==
    [op : {"ExecuteVesctl"}, args : {CallerArgs}, shared : BOOLEAN,
     params : {IF i = 1 THEN OneParam("--cert", AmbientCert) ELSE EmptyParams},
     plaintext : {<<>>}, plaintextPath : {NoPath}]
    \cup
    [op : {"SealFile"}, args : {<<>>}, shared : {FALSE}, params : {EmptyParams},
     plaintext : {<<>>}, plaintextPath : {<<"/home/u/plain.txt">>}]
    \cup
    [op : {"Seal"}, args : {<<>>}, shared : {FALSE}, params : {EmptyParams},
     plaintext : {<<"p", ToString(i)>>}, plaintextPath : {NoPath}]

NoFinalArguments == [inArray |-> FALSE, args |-> <<>>, params |-> EmptyParams]

ConcNoLocals ==
    [sealDir |-> NoPath, plaintextPath |-> NoPath, tmpDir |-> NoPath,
     pubKeyFile |-> NoPath, policyDocumentFile |-> NoPath,
     emptyInputFile |-> NoPath, finalArguments |-> NoFinalArguments]

ConcNoChild == [ran |-> FALSE, args |-> <<>>, params |-> EmptyParams, plaintext |-> <<>>]

ConcInit ==
    /\ cPc = [i \in Invocations |-> "idle"]
    /\ cIn \in [Invocations -> UNION {ConcInputs(i) : i \in Invocations}]
    /\ \A i \in Invocations : cIn[i] \in ConcInputs(i)
    /\ cFs = [p \in {} |-> [kind |-> "dir", data |-> <<>>, by |-> 0]]
    /\ cLoc = [i \in Invocations |-> ConcNoLocals]
    /\ cArray \in [roomy : BOOLEAN, params : {EmptyParams}]
    /\ cMade = [i \in Invocations |-> {}]
    /\ cForeign = {}
    /\ cChild = [i \in Invocations |-> ConcNoChild]

ConcUnused ==
    /\ cPc = [i \in Invocations |-> "unused"]
    /\ cIn = [i \in Invocations |->
                [op |-> "Seal", args |-> <<>>, shared |-> FALSE, params |-> EmptyParams,
                 plaintext |-> <<>>, plaintextPath |-> NoPath]]
    /\ cFs = [p \in {} |-> [kind |-> "dir", data |-> <<>>, by |-> 0]]
    /\ cLoc = [i \in Invocations |-> ConcNoLocals]
    /\ cArray = [roomy |-> FALSE, params |-> EmptyParams]
    /\ cMade = [i \in Invocations |-> {}]
    /\ cForeign = {}
    /\ cChild = [i \in Invocations |-> ConcNoChild]

\* a write to p or a removal of p by invocation i, when p is held by another
Foreign(i, p) ==
    IF p \in DOMAIN cFs /\ cFs[p].by # i THEN {[by |-> i, path |-> p]} ELSE {}

ConcReadFile(p) ==
    IF p \in DOMAIN cFs THEN cFs[p].data
    ELSE IF p \in DOMAIN InitialFs THEN InitialFs[p].data
    ELSE <<>>

\* os.CreateTemp(dir, prefix) in a directory the invocation has just made:
\* every name is free there, and one stands for all
ConcTempFile(dir, prefix) == dir \o <<prefix, "a1">>

\* os.MkdirTemp and os.CreateTemp create a path that did not exist
ConcCreate(i, p, kind, data) ==
    /\ p \notin DOMAIN cFs
    /\ cFs' = FsAdd(cFs, p, [kind |-> kind, data |-> data, by |-> i])
    /\ cMade' = [cMade EXCEPT ![i] = @ \cup {p}]

\* the goroutine enters Seal, SealFile or ExecuteVesctl
ConcCall(i) ==
    /\ cPc[i] = "idle"
    /\ cPc' = [cPc EXCEPT ![i] = CASE cIn[i].op = "Seal" -> "seal.mkdir"
                                   [] cIn[i].op = "SealFile" -> "sf.mkdir"
                                   [] OTHER -> "ev.create"]
    /\ cLoc' = [cLoc EXCEPT ![i].plaintextPath = cIn[i].plaintextPath]
    /\ UNCHANGED <<cIn, cFs, cArray, cMade, cForeign, cChild>>
    /\ UNCHANGED cRest

\* Seal: os.MkdirTemp("", "")
ConcSealMkdirTemp(i) ==
    /\ cPc[i] = "seal.mkdir"
    /\ \E d \in ConcDirs :
          /\ ConcCreate(i, d, "dir", <<>>)
          /\ cLoc' = [cLoc EXCEPT ![i].sealDir = d]
    /\ cPc' = [cPc EXCEPT ![i] = "seal.create"]
    /\ UNCHANGED <<cIn, cArray, cForeign, cChild>>
    /\ UNCHANGED cRest

\* Seal: os.CreateTemp(tmpDir, "blindfold")
ConcSealCreateTemp(i) ==
    /\ cPc[i] = "seal.create"
    /\ LET f == ConcTempFile(cLoc[i].sealDir, "blindfold") IN
          /\ ConcCreate(i, f, "file", <<>>)
          /\ cLoc' = [cLoc EXCEPT ![i].plaintextPath = f]
    /\ cPc' = [cPc EXCEPT ![i] = "seal.write"]
    /\ UNCHANGED <<cIn, cArray, cForeign, cChild>>
    /\ UNCHANGED cRest

\* Seal: plaintextFile.Write(plaintext), Close, and the call of SealFile
ConcSealWriteClose(i) ==
    /\ cPc[i] = "seal.write"
    /\ cForeign' = cForeign \cup Foreign(i, cLoc[i].plaintextPath)
    /\ cFs' = [cFs EXCEPT ![cLoc[i].plaintextPath].data = cIn[i].plaintext]
    /\ cPc' = [cPc EXCEPT ![i] = "sf.mkdir"]
    /\ UNCHANGED <<cIn, cLoc, cArray, cMade, cChild>>
    /\ UNCHANGED cRest

\* SealFile: os.MkdirTemp("", "")
ConcSealFileMkdirTemp(i) ==
    /\ cPc[i] = "sf.mkdir"
    /\ \E d \in ConcDirs :
          /\ ConcCreate(i, d, "dir", <<>>)
          /\ cLoc' = [cLoc EXCEPT ![i].tmpDir = d]
    /\ cPc' = [cPc EXCEPT ![i] = "sf.pubkey"]
    /\ UNCHANGED <<cIn, cArray, cForeign, cChild>>
    /\ UNCHANGED cRest

\* SealFile: createTempYAMLEnvelope of the public key
ConcSealFilePublicKey(i) ==
    /\ cPc[i] = "sf.pubkey"
    /\ LET f == ConcTempFile(cLoc[i].tmpDir, "PublicKey") IN
          /\ ConcCreate(i, f, "file", <<"yaml">>)
          /\ cLoc' = [cLoc EXCEPT ![i].pubKeyFile = f]
    /\ cPc' = [cPc EXCEPT ![i] = "sf.policy"]
    /\ UNCHANGED <<cIn, cArray, cForeign, cChild>>
    /\ UNCHANGED cRest

\* SealFile: createTempYAMLEnvelope of the policy document
ConcSealFilePolicyDocument(i) ==
    /\ cPc[i] = "sf.policy"
    /\ LET f == ConcTempFile(cLoc[i].tmpDir, "SecretPolicyDocument") IN
          /\ ConcCreate(i, f, "file", <<"yaml">>)
          /\ cLoc' = [cLoc EXCEPT ![i].policyDocumentFile = f]
    /\ cPc' = [cPc EXCEPT ![i] = "ev.create"]
    /\ UNCHANGED <<cIn, cArray, cForeign, cChild>>
    /\ UNCHANGED cRest

\* ExecuteVesctl: os.CreateTemp("", "vesctl") and Close
ConcExecuteCreateTemp(i) ==
    /\ cPc[i] = "ev.create"
    /\ \E f \in TempFiles(NoPath, "vesctl") :
          /\ ConcCreate(i, f, "file", <<>>)
          /\ cLoc' = [cLoc EXCEPT ![i].emptyInputFile = f]
    /\ cPc' = [cPc EXCEPT ![i] = "ev.append"]
    /\ UNCHANGED <<cIn, cArray, cForeign, cChild>>
    /\ UNCHANGED cRest

\* the args and params ExecuteVesctl is called with
ConcArgs(i) ==
    IF cIn[i].op = "ExecuteVesctl" THEN cIn[i].args
    ELSE << <<"request">>, <<"secrets">>, <<"encrypt">>, cLoc[i].plaintextPath >>

ConcParams(i) ==
    IF cIn[i].op = "ExecuteVesctl" THEN cIn[i].params
    ELSE [k \in {"--public-key", "--policy-document"} |->
             IF k = "--public-key" THEN cLoc[i].pubKeyFile ELSE cLoc[i].policyDocumentFile]

ConcParameters(i) ==
    MergeParameters(BaselineParameters(cLoc[i].emptyInputFile), ConcParams(i))

\* append(finalArguments, k, v) writes into the array of args when args
\* has the capacity for it, and into a new array otherwise.  The slice
\* literal of SealFile has no spare capacity.
AppendsInPlace(i) == cIn[i].op = "ExecuteVesctl" /\ cIn[i].shared /\ cArray.roomy

\* ExecuteVesctl: finalArguments := args, and the loop that appends the
\* pairs of the merged map.  The pairs are kept as the map.
ConcExecuteAppend(i) ==
    /\ cPc[i] = "ev.append"
    /\ IF AppendsInPlace(i)
       THEN /\ cArray' = [cArray EXCEPT !.params = ConcParameters(i)]
            /\ cLoc' = [cLoc EXCEPT ![i].finalArguments =
                           [inArray |-> TRUE, args |-> ConcArgs(i), params |-> EmptyParams]]
       ELSE /\ cLoc' = [cLoc EXCEPT ![i].finalArguments =
                           [inArray |-> FALSE, args |-> ConcArgs(i),
                            params |-> ConcParameters(i)]]
            /\ UNCHANGED cArray
    /\ cPc' = [cPc EXCEPT ![i] = "ev.run"]
    /\ UNCHANGED <<cIn, cFs, cMade, cForeign, cChild>>
    /\ UNCHANGED cRest

\* the elements finalArguments has now
FinalArgumentsNow(i) ==
    LET fa == cLoc[i].finalArguments
    IN  [args |-> fa.args, params |-> IF fa.inArray THEN cArray.params ELSE fa.params]

\* ExecuteVesctl: exec.CommandContext copies finalArguments into cmd.Args;
\* cmd.Run starts the child, which reads the file its arguments name, and
\* waits for it.
ConcExecuteRun(i) ==
    /\ cPc[i] = "ev.run"
    /\ cChild' = [cChild EXCEPT ![i] =
                     [ran |-> TRUE, args |-> FinalArgumentsNow(i).args,
                      params |-> FinalArgumentsNow(i).params,
                      plaintext |-> ConcReadFile(cLoc[i].plaintextPath)]]
    /\ cPc' = [cPc EXCEPT ![i] = "ev.remove"]
    /\ UNCHANGED <<cIn, cFs, cLoc, cArray, cMade, cForeign>>
    /\ UNCHANGED cRest

\* ExecuteVesctl returns: the deferred os.Remove(emptyInputFile) runs
ConcExecuteRemove(i) ==
    /\ cPc[i] = "ev.remove"
    /\ cForeign' = cForeign \cup Foreign(i, cLoc[i].emptyInputFile)
    /\ cFs' = FsRemove(cFs, cLoc[i].emptyInputFile)
    /\ cPc' = [cPc EXCEPT ![i] = IF cIn[i].op = "ExecuteVesctl" THEN "done"
                                  ELSE "sf.removeall"]
    /\ UNCHANGED <<cIn, cLoc, cArray, cMade, cChild>>
    /\ UNCHANGED cRest

\* SealFile returns: the deferred os.RemoveAll(tmpDir) runs
ConcSealFileRemoveAll(i) ==
    /\ cPc[i] = "sf.removeall"
    /\ cForeign' = cForeign \cup
          UNION {Foreign(i, p) : p \in {q \in DOMAIN cFs : IsPrefix(cLoc[i].tmpDir, q)}}
    /\ cFs' = FsRemoveAll(cFs, cLoc[i].tmpDir)
    /\ cPc' = [cPc EXCEPT ![i] = IF cIn[i].op = "SealFile" THEN "done"
                                  ELSE "seal.removeall"]
    /\ UNCHANGED <<cIn, cLoc, cArray, cMade, cChild>>
    /\ UNCHANGED cRest

\* Seal returns: the deferred os.RemoveAll(tmpDir) runs
ConcSealRemoveAll(i) ==
    /\ cPc[i] = "seal.removeall"
    /\ cForeign' = cForeign \cup
          UNION {Foreign(i, p) : p \in {q \in DOMAIN cFs : IsPrefix(cLoc[i].sealDir, q)}}
    /\ cFs' = FsRemoveAll(cFs, cLoc[i].sealDir)
    /\ cPc' = [cPc EXCEPT ![i] = "done"]
    /\ UNCHANGED <<cIn, cLoc, cArray, cMade, cChild>>
    /\ UNCHANGED cRest

ConcNext ==
    \E i \in Invocations :
        \/ ConcCall(i)
        \/ ConcSealMkdirTemp(i)
        \/ ConcSealCreateTemp(i)
        \/ ConcSealWriteClose(i)
        \/ ConcSealFileMkdirTemp(i)
        \/ ConcSealFilePublicKey(i)
        \/ ConcSealFilePolicyDocument(i)
        \/ ConcExecuteCreateTemp(i)
        \/ ConcExecuteAppend(i)
        \/ ConcExecuteRun(i)
        \/ ConcExecuteRemove(i)
        \/ ConcSealFileRemoveAll(i)
        \/ ConcSealRemoveAll(i)

----------------------------------------------------------------------------
(* cmd/unseal: main and process *)

MaxArgs == 2

\* sealed values a JSON specification carries
SealedA == <<"Z", "g", "=", "=">>

SealedB == <<"&", "&">>

NoEntries == [p \in {} |-> <<>>]

\* what os.ReadFile finds for a FILE argument: nothing it can read, bytes
\* that are not a JSON object of strings, or a map of paths to sealed values
FileContents ==
    {[kind |-> "unreadable", spec |-> NoEntries], [kind |-> "invalid", spec |-> NoEntries],
     [kind |-> "json", spec |-> NoEntries],
     [kind |-> "json", spec |-> [p \in {<<"/out/a">>} |-> SealedA]],
     [kind |-> "json", spec |-> [p \in {<<"/out/a">>, <<"/out/b">>} |->
                                   IF p = <<"/out/a">> THEN SealedA ELSE SealedB]]}

\* response bodies of the sidecar the driver talks to
DriverBodies == {<<"Q", "Q", "=", "=">>, <<"^">>}

SourceFile(i) == <<"spec", ToString(i)>>

\* wingmanURL + wingman.UnsealEndpoint
DriverEndpoint == DefaultWingmanURL \o UnsealEndpoint

\* the values of slog's levels
LevelValue(level) ==
    CASE level = "DEBUG" -> -4
      [] level = "INFO" -> 0
      [] level = "WARN" -> 4
      [] OTHER -> 8

Record(level, msg, attrs) == [level |-> level, msg |-> msg, attrs |-> attrs]

NoAttrs == [k \in {} |-> <<>>]

Attr(k, v) == [x \in {k} |-> v]

Attrs2(k1, v1, k2, v2) == [x \in {k1, k2} |-> IF x = k1 THEN v1 ELSE v2]

\* the handler drops the records below the level in force
Emit(records) == dLog \cup {r \in records : LevelValue(r.level) >= LevelValue(dLevel)}

\* how an error prints in the "error" attribute: its chain, and the code
\* and text its message carries
ErrorText(err) == <<ToString(err.is), ToString(err.code)>> \o err.text

ProcessEntryRecordAtInfo(path, sealed) ==
    Record("INFO", "Processing entry", Attrs2("path", path, "sealed", sealed))

\* slog.Debug("Processing entry", "path", path, "sealed", sealed)
ProcessEntryRecord(path, sealed) ==
    Record("DEBUG", "Processing entry", Attrs2("path", path, "sealed", sealed))

DriverInit ==
    /\ dPc = "main"
    /\ dArgs \in 0..MaxArgs
    /\ dLevel \in {"DEBUG", "INFO"}
    /\ dIdx = 0
    /\ dSpec = NoEntries
    /\ dCur = [path |-> NoPath, sealed |-> <<>>, unsealed |-> NilBytes]
    /\ dReqs = <<>>
    /\ dReads = <<>>
    /\ dOut = [p \in {} |-> <<>>]
    /\ dLog = {}
    /\ dErr = NilErr
    /\ retCode = -1

DriverUnused ==
    /\ dPc = "unused"
    /\ dArgs = 0
    /\ dLevel = "INFO"
    /\ dIdx = 0
    /\ dSpec = NoEntries
    /\ dCur = [path |-> NoPath, sealed |-> <<>>, unsealed |-> NilBytes]
    /\ dReqs = <<>>
    /\ dReads = <<>>
    /\ dOut = [p \in {} |-> <<>>]
    /\ dLog = {}
    /\ dErr = NilErr
    /\ retCode = -1

AfterFailureContinues == "range"

\* `retCode = 1` is followed by `return`
AfterFailure == "exited"

ExitWithDeferTimeValue(code, err, records) ==
    /\ dPc' = IF code = 0 THEN "exited" ELSE AfterFailure
    /\ retCode' = 0
    /\ dErr' = err
    /\ dLog' = Emit(records)

\* main ends: retCode is set, and the deferred closure calls os.Exit(retCode)
\* with the value retCode has then
Exit(code, err, records) ==
    /\ dPc' = IF code = 0 THEN "exited" ELSE AfterFailure
    /\ retCode' = code
    /\ dErr' = err
    /\ dLog' = Emit(records)

\* main up to the call of WaitForReady
DriverMain ==
    /\ dPc = "main"
    /\ IF dArgs = 0
       THEN Exit(1, MkErr({"no files"}, 0, <<>>),
                 {Record("ERROR", "No JSON files provided", NoAttrs)})
       ELSE /\ dPc' = "waiting"
            /\ UNCHANGED <<dLog, dErr, retCode>>
    /\ UNCHANGED <<dArgs, dLevel, dIdx, dSpec, dCur, dReqs, dReads, dOut>>
    /\ UNCHANGED dRest

\* WaitForReady has returned
DriverWaitReturns ==
    /\ dPc = "waiting"
    /\ wRet.returned
    /\ IF ~wRet.err.isNil
       THEN /\ Exit(1, wRet.err,
                    {Record("ERROR", "Wingman failed to reach ready status", NoAttrs)})
            /\ UNCHANGED dIdx
       ELSE /\ dPc' = "loop"
            /\ dIdx' = 1
            /\ UNCHANGED <<dLog, dErr, retCode>>
    /\ UNCHANGED <<dArgs, dLevel, dSpec, dCur, dReqs, dReads, dOut>>
    /\ UNCHANGED dRest

\* one turn of the loop over os.Args[1:]: os.ReadFile, then process up to
\* its range over spec
DriverReadFile ==
    /\ dPc = "loop"
    /\ IF dIdx > dArgs
       THEN /\ Exit(0, NilErr, {})
            /\ UNCHANGED <<dSpec, dReads>>
       ELSE \E content \in FileContents :
                  LET attempt == Record("DEBUG", "Attempting to retrieve file data",
                                        Attr("sourceFile", SourceFile(dIdx)))
                      payload == Record("DEBUG", "Processing JSON payload", NoAttrs)
                      readErr == MkErr({"fs.PathError"}, 0, <<>>)
                      jsonErr == MkErr({"json.SyntaxError"}, 0, <<>>)
                  IN  /\ dReads' = Append(dReads, [file |-> SourceFile(dIdx),
                                                   content |-> content])
                      /\ CASE content.kind = "unreadable" ->
                                /\ Exit(1, readErr,
                                        {attempt,
                                         Record("ERROR", "Error reading JSON specification from file",
                                                Attrs2("sourceFile", SourceFile(dIdx),
                                                       "error", ErrorText(readErr)))})
                                /\ UNCHANGED dSpec
                           [] content.kind = "invalid" ->
                                /\ Exit(1, jsonErr,
                                        {attempt, payload,
                                         Record("ERROR", "Processing failed",
                                                Attr("error", ErrorText(jsonErr)))})
                                /\ UNCHANGED dSpec
                           [] OTHER ->
                                /\ dSpec' = content.spec
                                /\ dPc' = "range"
                                /\ dLog' = Emit({attempt, payload})
                                /\ UNCHANGED <<dErr, retCode>>
    /\ UNCHANGED <<dArgs, dLevel, dIdx, dCur, dReqs, dOut>>
    /\ UNCHANGED dRest

\* process: the range over spec yields an entry, in an order Go leaves
\* unspecified, and UnsealEncoded hands its request to client.Do; or the
\* range is over and process returns nil
DriverRange ==
    /\ dPc = "range"
    /\ IF DOMAIN dSpec = {}
       THEN /\ dPc' = "loop"
            /\ dIdx' = dIdx + 1
            /\ UNCHANGED <<dSpec, dCur, dReqs, dLog>>
       ELSE /\ \E path \in DOMAIN dSpec :
                  /\ dCur' = [path |-> path, sealed |-> dSpec[path], unsealed |-> NilBytes]
                  /\ dSpec' = [q \in DOMAIN dSpec \ {path} |-> dSpec[q]]
                  /\ dReqs' = Append(dReqs, UnsealRequest(DriverEndpoint, dSpec[path]))
                  /\ dLog' = Emit({ProcessEntryRecord(path, dSpec[path]),
                                   Record("DEBUG", "Preparing unseal request from encoded source",
                                          Attr("endpoint", DriverEndpoint)),
                                   Record("DEBUG", "Sending unseal request",
                                          Attr("endpoint", DriverEndpoint))})
            /\ dPc' = "unsealing"
            /\ UNCHANGED dIdx
    /\ UNCHANGED <<dArgs, dLevel, dReads, dOut, dErr, retCode>>
    /\ UNCHANGED dRest

WriteFileSealed(out, path, data, how) ==
    IF how = "open fails" THEN out ELSE FsAdd(out, path, dCur.sealed)

\* what os.WriteFile(path, unsealed, 0o640) leaves at path: the bytes, or,
\* when the write fails after the file was opened, a truncated file; the
\* file is untouched when it cannot be opened
WriteFile(out, path, data, how) ==
    CASE how = "ok" -> FsAdd(out, path, data)
      [] how = "write fails" -> FsAdd(out, path, <<>>)
      [] OTHER -> out

\* process: UnsealEncoded returns; on success os.WriteFile, on an error the
\* return through main
DriverUnsealed ==
    /\ dPc = "unsealing"
    /\ \E kind \in {"transport", "response"}, cause \in TransportFailures,
          status \in Statuses, body \in DriverBodies, how \in {"ok", "open fails", "write fails"} :
          LET result == IF kind = "transport" THEN TransportError(cause)
                        ELSE UnsealClassify(status, body)
              response == IF kind = "transport" THEN {}
                          ELSE {Record("DEBUG", "Processing unseal response",
                                       Attr("statusCode", <<ToString(status)>>))}
              writeErr == MkErr({"fs.PathError"}, 0, <<>>)
              failed(err) == Record("ERROR", "Processing failed", Attr("error", ErrorText(err)))
          IN  /\ kind = "transport" => (status = StatusOK /\ body = <<"^">>)
              /\ kind = "response" => (cause = "tls" /\ ~CtxDone)
              /\ (kind = "transport" \/ ~result.err.isNil) => how = "ok"
              /\ IF ~result.err.isNil
                 THEN /\ Exit(1, result.err, response \cup {failed(result.err)})
                      /\ UNCHANGED dOut
                 ELSE /\ dOut' = WriteFile(dOut, dCur.path, result.data.bytes, how)
                      /\ IF how = "ok"
                         THEN /\ dPc' = "range"
                              /\ dLog' = Emit(response)
                              /\ UNCHANGED <<dErr, retCode>>
                         ELSE Exit(1, writeErr, response \cup {failed(writeErr)})
              /\ dCur' = [dCur EXCEPT !.unsealed = result.data]
    /\ UNCHANGED <<dArgs, dLevel, dIdx, dSpec, dReqs, dReads>>
    /\ UNCHANGED dRest

DriverNext ==
    \/ DriverMain
    \/ DriverWaitReturns
    \/ DriverReadFile
    \/ DriverRange
    \/ DriverUnsealed
    \/ (dPc = "waiting" /\ WaitForReadyCall)
    \/ (dPc = "waiting" /\ SelectCtxDone)
    \/ (dPc = "waiting" /\ SelectTimer)
    \/ (dPc = "waiting" /\ DoFails)
    \/ (dPc = "waiting" /\ DoResponds)
    \/ (dPc = "waiting" /\ ReadAllFails)
    \/ (dPc = "waiting" /\ ReadAllOK)
    \/ (dPc = "waiting" /\ Tick)

----------------------------------------------------------------------------
(* specifications *)

WaitParked == WaitIdle /\ wCfg = [endpointOK |-> TRUE, sleep |-> 1, deadline |-> 0,
                                  server |-> "any", readyAt |-> 0]

InitUnseal == UnsealInit /\ WaitParked /\ BlindfoldParked /\ ConcUnused /\ DriverUnused /\ ArgsUnused /\ ClientUnused

SpecUnseal == InitUnseal /\ [][UnsealNext]_vars

InitWait == WaitInit /\ UnsealInit /\ BlindfoldParked /\ ConcUnused /\ DriverUnused /\ ArgsUnused /\ ClientUnused

SpecWait == InitWait /\ [][WaitNext]_vars

InitBlindfold == BlindfoldInit /\ UnsealInit /\ WaitParked /\ ConcUnused /\ DriverUnused /\ ArgsUnused /\ ClientUnused

SpecBlindfold == InitBlindfold /\ [][BlindfoldNext]_vars

\* The goroutine of the call takes its steps, and a child whose context is
\* done ends, because it is killed; a child whose context is live may run
\* for ever, and nothing obliges the context to be cancelled.
BlindfoldRuns ==
    \/ BlindfoldCall
    \/ SealMkdirTemp
    \/ SealCreateTemp
    \/ SealWriteClose
    \/ SealFileFind
    \/ SealFileMkdirTemp
    \/ SealFilePublicKey
    \/ SealFilePolicyDocument
    \/ ExecuteCreateTemp
    \/ ExecuteClose
    \/ ExecuteStart
    \/ (bCtxDone /\ ExecuteWait)
    \/ ExecuteRemove
    \/ SealFileScan
    \/ SealFileRemoveAll
    \/ SealRemoveAll

InitBlindfoldLive == InitBlindfold /\ bWorld.env = <<>> /\ bWorld.seed = 0

SpecBlindfoldLive == InitBlindfoldLive /\ [][BlindfoldNext]_vars /\ WF_vars(BlindfoldRuns)

\* a process that uses one of the two wingman clients and never calls the other
UnsealUnused ==
    /\ uPc = "unused"
    /\ uSealed = <<>>
    /\ uRaw = <<>>
    /\ uEndpoint = <<>>
    /\ uEntry = "none"
    /\ uReqs = <<>>
    /\ uResp = NoResp
    /\ uResult = [data |-> NilBytes, err |-> NilErr]

WaitUnused ==
    /\ wPc = "unused"
    /\ wCfg = [endpointOK |-> TRUE, sleep |-> 1, deadline |-> 0, server |-> "any", readyAt |-> 0]
    /\ now = 0
    /\ timer = NoTimer
    /\ wResp = NoProbe
    /\ wLast = NoProbe
    /\ wProbeAt = -1
    /\ wReq = NoRequest
    /\ wRet = NotReturned

InitWingman ==
    /\ BlindfoldParked
    /\ ConcUnused
    /\ DriverUnused /\ ArgsUnused /\ ClientUnused
    /\ \/ UnsealInit /\ WaitUnused
       \/ WaitInit /\ UnsealUnused

WingmanNext == UnsealNext \/ WaitNext

SpecWingman == InitWingman /\ [][WingmanNext]_vars

BlindfoldUnused ==
    /\ bPc = "unused"
    /\ bIn = [op |-> "Seal", vesctl |-> <<>>, args |-> <<>>, params |-> EmptyParams,
              plaintext |-> <<>>, plaintextPath |-> NoPath]
    /\ bWorld = [env |-> <<>>, lookPath |-> "found", seed |-> 0]
    /\ bCtxDone = FALSE
    /\ fs = InitialFs
    /\ bMade = {}
    /\ bLoc = NoLocals
    /\ child = NoChild
    /\ bBuf = <<>>
    /\ bVal = NoVal
    /\ bLog = {}
    /\ bRet = [returned |-> FALSE, data |-> NilBytes, err |-> NilErr]

\* a process that makes one call, of any of the exported functions, in a
\* world without ambient credentials
InitClients ==
    /\ ConcUnused
    /\ DriverUnused /\ ArgsUnused /\ ClientUnused
    /\ \/ UnsealInit /\ WaitUnused /\ BlindfoldUnused
       \/ WaitInit /\ UnsealUnused /\ BlindfoldUnused
       \/ /\ BlindfoldInit
          /\ bWorld.env = <<>>
          /\ bWorld.seed = 0
          /\ UnsealUnused
          /\ WaitUnused

ClientsNext == UnsealNext \/ WaitNext \/ BlindfoldNext

SpecClients == InitClients /\ [][ClientsNext]_vars

\* a process whose goroutines call the seal path at the same time
InitConcurrent ==
    ConcInit /\ UnsealUnused /\ WaitUnused /\ BlindfoldUnused /\ DriverUnused /\ ArgsUnused /\ ClientUnused

SpecConcurrent == InitConcurrent /\ [][ConcNext]_vars

\* the unseal command: main calls WaitForReady with wingmanURL + StatusEndpoint
\* and 10 seconds between attempts; its context is done when SIGINT or SIGTERM
\* arrives, which is the deadline of the poller's configuration
InitDriver ==
    /\ DriverInit
    /\ WaitInit
    /\ wCfg.sleep = MaxSleep
    /\ wCfg.server = "timed" => wCfg.readyAt \in {0, 2}
    /\ wCfg.deadline \in {0, 2, MaxTime + 1}
    /\ UnsealUnused
    /\ BlindfoldUnused
    /\ ConcUnused
    /\ ArgsUnused /\ ClientUnused

SpecDriver == InitDriver /\ [][DriverNext]_vars

\* the driver's goroutine takes its steps, the sidecar answers or the
\* request fails, and time passes
SpecDriverLive == InitDriver /\ [][DriverNext]_vars /\ WF_vars(DriverNext)

\* a process that is the unseal command, or makes one call of an exported function
InitArguments ==
    ArgsInit /\ UnsealUnused /\ WaitUnused /\ BlindfoldUnused /\ ConcUnused /\ DriverUnused
        /\ ClientUnused

SpecArguments == InitArguments /\ [][ArgsNext]_vars

InitF5xc ==
    ClientInit /\ UnsealUnused /\ WaitUnused /\ BlindfoldUnused /\ ConcUnused /\ DriverUnused
        /\ ArgsUnused

SpecF5xc == InitF5xc /\ [][F5xcNext]_vars

InitProgram == InitClients \/ InitDriver

ProgramNext == (dPc = "unused" /\ ClientsNext) \/ DriverNext

SpecProgram == InitProgram /\ [][ProgramNext]_vars

----------------
(* C1 *)

UResponded == uPc = "done" /\ uResp.received /\ uResp.readOK

UnsealSentinels == {"ErrDeniedByPolicy", "ErrNotReady", "ErrUnexpectedHTTPStatus"}

\* C1 as stated: every response whose body was read is classified by its
\* status code alone: 200 gives the decoded body and a nil error, 403
\* ErrDeniedByPolicy, 503 ErrNotReady with the body text, anything else
\* ErrUnexpectedHTTPStatus with the code and the body text.
C1_Original ==
    UResponded =>
        /\ uResp.status = StatusOK =>
              /\ uResult.err.isNil
              /\ ~uResult.data.isNil
        /\ uResp.status = StatusForbidden =>
              uResult.data.isNil /\ uResult.err.is = {"ErrDeniedByPolicy"}
        /\ uResp.status = StatusServiceUnavailable =>
              /\ uResult.data.isNil
              /\ uResult.err.is = {"ErrNotReady"}
              /\ uResult.err.text = uResp.body
        /\ uResp.status \notin {StatusOK, StatusForbidden, StatusServiceUnavailable} =>
              /\ uResult.data.isNil
              /\ uResult.err.is = {"ErrUnexpectedHTTPStatus"}
              /\ uResult.err.code = uResp.status
              /\ uResult.err.text = uResp.body

\* C1 (amended): a response whose body was read is classified by its status
\* code.  200 with a body that is valid base64 returns the decoded bytes and
\* a nil error; 200 with any other body returns no data and a decode error
\* that is none of the three sentinels; 403 returns no data and
\* ErrDeniedByPolicy; 503 returns no data and ErrNotReady carrying the body
\* text; every other code returns no data and ErrUnexpectedHTTPStatus
\* carrying the code and the body text.  No error matches two sentinels.
C1_Classification ==
    UResponded =>
        /\ (uResp.status = StatusOK /\ B64Valid(uResp.body)) =>
              /\ uResult.err.isNil
              /\ ~uResult.data.isNil
              /\ Len(uResult.data.bytes) <= (Len(uResp.body) * 3) \div 4
              /\ uResp.body = <<"Q", "Q", "=", "=">> => uResult.data.bytes = <<65>>
              /\ uResp.body = <<"Q", "U", "U", "=">> => uResult.data.bytes = <<65, 69>>
              /\ uResp.body = <<"Q", "U", "Q", "U">> => uResult.data.bytes = <<65, 68, 20>>
              /\ uResp.body = <<>> => uResult.data.bytes = <<>>
        /\ (uResp.status = StatusOK /\ ~B64Valid(uResp.body)) =>
              /\ uResult.data.isNil
              /\ ~uResult.err.isNil
              /\ uResult.err.is \cap UnsealSentinels = {}
        /\ uResp.status = StatusForbidden =>
              uResult.data.isNil /\ uResult.err.is = {"ErrDeniedByPolicy"}
        /\ uResp.status = StatusServiceUnavailable =>
              /\ uResult.data.isNil
              /\ uResult.err.is = {"ErrNotReady"}
              /\ uResult.err.text = uResp.body
        /\ uResp.status \notin {StatusOK, StatusForbidden, StatusServiceUnavailable} =>
              /\ uResult.data.isNil
              /\ uResult.err.is = {"ErrUnexpectedHTTPStatus"}
              /\ uResult.err.code = uResp.status
              /\ uResult.err.text = uResp.body
        /\ Cardinality(uResult.err.is \cap UnsealSentinels) <= 1

\* A 403 answer has been classified and a 200 answer has been decoded.
C1_Witness ==
    /\ UResponded
    /\ uResp.status = StatusForbidden
    /\ ErrorsIs(uResult.err, "ErrDeniedByPolicy")

----------------------------------------------------------------------------
(* C2 *)

\* C2: WaitForReady returns nil only when a probe of this call was answered
\* with status 200 and a body that is exactly the five bytes READY.
C2_NilOnlyOnReady ==
    (wRet.returned /\ wRet.err.isNil) =>
        /\ wProbeAt >= 0
        /\ wLast.kind = "response"
        /\ wLast.status = 200
        /\ wLast.body = <<"R", "E", "A", "D", "Y">>

\* The call returned nil after an earlier probe of it was answered not ready.
C2_Witness ==
    /\ wRet.returned
    /\ wRet.err.isNil
    /\ wCfg.server = "any"
    /\ wProbeAt > InitialDelay

----------------------------------------------------------------------------
(* C3 *)

\* C3: once the context is done, a WaitForReady that has not returned can
\* always take a step towards returning: it is never blocked for good.
C3_ReturnsAfterCancel ==
    (CtxDone /\ wPc \notin {"idle", "done"}) => ENABLED WaitStep

----------------------------------------------------------------------------
(* C4 *)

\* C4: while the context is not done, a WaitForReady that is back in its
\* select after a probe that did not report ready has its timer running (or
\* already fired) for no more than sleepBetweenAttempts after that probe, so
\* that another probe follows.
C4_FailedProbeRearmsTimer ==
    (wPc = "select" /\ ~CtxDone /\ wLast.kind # "none") =>
        \/ timer.chan
        \/ timer.armed /\ timer.due <= wLast.at + wCfg.sleep

----------------------------------------------------------------------------
(* C5 *)

\* C5 as stated: against an endpoint that answers READY from readyAt on, a
\* call with a deadline after readyAt returns nil, at or after readyAt, and a
\* call with a deadline before readyAt returns ErrNotReady at the deadline.
C5_Original ==
    (wCfg.server = "timed" /\ wRet.returned) =>
        /\ wCfg.deadline > wCfg.readyAt =>
              wRet.err.isNil /\ wRet.at >= wCfg.readyAt
        /\ wCfg.deadline < wCfg.readyAt =>
              ErrorsIs(wRet.err, "ErrNotReady") /\ wRet.at = wCfg.deadline

\* C5 (amended): against an endpoint that answers READY from readyAt on,
\* WaitForReady returns nil only at or after readyAt and only after a probe
\* answered READY; an error it returns is ErrNotReady and is returned at the
\* deadline, not later; with a deadline before readyAt it never returns nil.
C5_TimedEndpoint ==
    (wCfg.server = "timed" /\ wRet.returned) =>
        /\ wRet.err.isNil =>
              /\ wRet.at >= wCfg.readyAt
              /\ wLast.kind = "response" /\ wLast.body = READY
        /\ ~wRet.err.isNil =>
              /\ wRet.err.is = {"ErrNotReady"}
              /\ wRet.at = wCfg.deadline
        /\ wCfg.deadline < wCfg.readyAt => ~wRet.err.isNil

\* The endpoint became ready after the first probe and before the deadline,
\* and the call returned nil.
C5_Witness ==
    /\ wCfg.server = "timed"
    /\ wCfg.readyAt >= 2
    /\ wCfg.deadline > wCfg.readyAt
    /\ wRet.returned
    /\ wRet.err.isNil

\* The deadline came before the endpoint was ready, and the call returned
\* ErrNotReady.
C5_WitnessTimeout ==
    /\ wCfg.server = "timed"
    /\ wCfg.deadline < wCfg.readyAt
    /\ wCfg.deadline >= 2
    /\ wRet.returned
    /\ ErrorsIs(wRet.err, "ErrNotReady")

----------------------------------------------------------------------------
(* claims about blindfold *)

ChildStarted == child.state \in {"running", "exited"}

ChildEnvNames == {child.env[i].name : i \in DOMAIN child.env}

ChildEnvValue(name) ==
    child.env[CHOOSE i \in DOMAIN child.env : child.env[i].name = name].value

IsRandom16(v) ==
    /\ Len(v) = 16
    /\ \A i \in 1..16 : \E j \in DOMAIN randomStringChars : v[i] = randomStringChars[j]

\* C6: whatever the calling process's environment holds, a started child has
\* exactly the six variables VES_P12_PASSWORD, VOLT_API_P12_FILE,
\* VOLT_API_CERT, VOLT_API_KEY, VOLT_API_URL and VOLTERRA_TOKEN: the file
\* variables name the invocation's empty decoy file, the URL is the decoy
\* URL, the two secrets are 16-character strings over randomStringChars,
\* stdin is absent and nothing is inherited.
C6_ChildEnvironment ==
    ChildStarted =>
        /\ child.envSet
        /\ Len(child.env) = 6
        /\ ChildEnvNames = CredentialVars
        /\ \A n \in {"VOLT_API_P12_FILE", "VOLT_API_CERT", "VOLT_API_KEY"} :
              /\ ChildEnvValue(n) = bLoc.emptyInputFile
              /\ child.state = "running" =>
                    /\ bLoc.emptyInputFile \in DOMAIN fs
                    /\ fs[bLoc.emptyInputFile] = File(<<>>)
        /\ ChildEnvValue("VOLT_API_URL") = <<"https://f5xc.invalid/api">>
        /\ IsRandom16(ChildEnvValue("VES_P12_PASSWORD"))
        /\ IsRandom16(ChildEnvValue("VOLTERRA_TOKEN"))
        /\ child.stdin = "nil"

C6_Witness ==
    /\ bIn.op = "ExecuteVesctl"
    /\ child.state = "running"
    /\ Len(bWorld.env) = 7

AmbientCredentialValues ==
    {bWorld.env[i].value : i \in {j \in DOMAIN bWorld.env : bWorld.env[j].name \in CredentialVars}}

ChildEnvValues == {child.env[i].value : i \in DOMAIN child.env}

ChildArgvValues ==
    Range(child.argv.args) \cup Range(child.argv.params)
        \cup {<<k>> : k \in DOMAIN child.argv.params}

C7_Original ==
    ChildStarted =>
        AmbientCredentialValues \cap (ChildEnvValues \cup ChildArgvValues) = {}

\* C7: a value of an ambient credential variable appears in a started child's
\* environment only if it is itself the decoy URL, and in the child's
\* argument vector only if it is the decoy URL or the caller passed it in
\* args or params, which are handed to the child as they are.
C7_Isolation ==
    ChildStarted =>
        \A v \in AmbientCredentialValues :
            /\ v \in ChildEnvValues => v = DecoyURL
            /\ v \in ChildArgvValues =>
                  \/ v = DecoyURL
                  \/ v \in Range(ExecArgs) \cup Range(ExecParams)

C7_Witness ==
    /\ bIn.op = "ExecuteVesctl"
    /\ child.state = "running"
    /\ AmbientToken \in AmbientCredentialValues
    /\ AmbientToken \in Range(bIn.args)
    /\ AmbientToken \in ChildArgvValues
    /\ AmbientToken \notin ChildEnvValues

SealReturned == bRet.returned /\ bIn.op \in {"Seal", "SealFile"}

C8_Original == SealReturned => bMade \cap DOMAIN fs = {}

\* C8: after Seal or SealFile returns, on every exit path, a temporary
\* directory or file the call created still exists only if the deferred
\* removal that covers it failed, which was logged.
C8_TempCleanup ==
    SealReturned =>
        \A p \in bMade \cap DOMAIN fs : \E l \in bLog : IsPrefix(l, p)

C8_Witness ==
    /\ bRet.returned
    /\ bIn.op = "Seal"
    /\ bRet.err.isNil
    /\ Cardinality(bMade) = 6
    /\ bMade \cap DOMAIN fs = {}

ExecuteReturned == bRet.returned /\ bIn.op = "ExecuteVesctl"

DecoyInUse == bPc \in {"ev.close", "ev.start", "ev.wait", "ev.remove"}

C9_Original ==
    ExecuteReturned =>
        /\ bMade = {bLoc.emptyInputFile}
        /\ bLoc.emptyInputFile \notin DOMAIN fs

\* C9: when ExecuteVesctl could create its decoy file, the file is the one
\* file the invocation creates, it is empty while the invocation uses it, and
\* when ExecuteVesctl returns it no longer exists unless its removal failed,
\* which was logged; when the creation failed no file was created and the
\* error is not ErrVesctl.
C9_DecoyFile ==
    /\ (bIn.op = "ExecuteVesctl" /\ DecoyInUse) =>
          /\ bMade = {bLoc.emptyInputFile}
          /\ bLoc.emptyInputFile \in DOMAIN fs
          /\ fs[bLoc.emptyInputFile] = File(<<>>)
    /\ ExecuteReturned =>
          IF bLoc.emptyInputFile = NoPath
          THEN /\ bMade = {}
               /\ ~bRet.err.isNil
               /\ ~ErrorsIs(bRet.err, "ErrVesctl")
          ELSE /\ bMade = {bLoc.emptyInputFile}
               /\ \/ bLoc.emptyInputFile \notin DOMAIN fs
                  \/ bLoc.emptyInputFile \in bLog

C9_Witness ==
    /\ ExecuteReturned
    /\ child.ended = "exit 1"
    /\ bLoc.emptyInputFile \in bMade
    /\ bLoc.emptyInputFile \notin DOMAIN fs

C11_NonZeroExit ==
    SealReturned =>
        /\ child.ended = "exit 1" =>
              /\ bRet.data = NilBytes
              /\ ErrorsIs(bRet.err, "ErrVesctl")
        /\ bRet.data # NilBytes => child.ended = "exit 0"

C11_Witness ==
    /\ SealReturned
    /\ child.ended = "exit 1"
    /\ bBuf = <<"header line", "\n", "payload-line", "\n">>
    /\ ErrorsIs(bRet.err, "ErrVesctl")

\* the lines of the tool's stdout, without their terminators
StdoutLines == ScanLines(bBuf, <<>>)

ExitedZero == SealReturned /\ child.ended = "exit 0"

\* C12: for every tool run that exits 0 with at least two lines on stdout,
\* SealFile returns exactly the bytes of the second line without its line
\* terminator, and a nil error.
C12_SecondLine ==
    (ExitedZero /\ Len(StdoutLines) >= 2) =>
        /\ bRet.err.isNil
        /\ bRet.data = Bytes(StdoutLines[2])

C14_NonEmptyOnSuccess ==
    (SealReturned /\ bRet.err.isNil) =>
        /\ ~bRet.data.isNil
        /\ Len(bRet.data.bytes) > 0

LocateFailed == SealReturned /\ ErrorsIs(bRet.err, "exec.ErrNotFound")

C15_Original ==
    /\ bPc = "sf.find" => bMade = {}
    /\ LocateFailed =>
          /\ ~ErrorsIs(bRet.err, "ErrVesctl")
          /\ child.state = "none"
          /\ bMade = {}

\* C15: SealFile resolves the tool's executable as its first step, before it
\* creates any directory or file; Seal first creates its temporary directory
\* and writes the plaintext file into it, and only then resolves the tool
\* (inside SealFile), before any envelope is written.  When the tool cannot
\* be found the call returns a locate error that is not ErrVesctl, having
\* launched no subprocess; SealFile has then written nothing, and Seal's
\* plaintext directory and file are removed unless that removal failed.  An
\* empty tool name resolves the default name vesctl.
C15_ResolveFirst ==
    /\ bPc = "sf.find" =>
          /\ child.state = "none"
          /\ IF bIn.op = "SealFile"
             THEN bMade = {}
             ELSE /\ bMade = {bLoc.sealDir, bLoc.plaintextPath}
                  /\ bMade \subseteq DOMAIN fs
                  /\ fs[bLoc.plaintextPath] = File(bIn.plaintext)
    /\ (SealReturned /\ bIn.op = "SealFile" /\ bWorld.lookPath = "notfound") => LocateFailed
    /\ LocateFailed =>
          /\ bRet.data = NilBytes
          /\ ~ErrorsIs(bRet.err, "ErrVesctl")
          /\ child.state = "none"
          /\ IF bIn.op = "SealFile"
             THEN bMade = {}
             ELSE /\ bMade = {bLoc.sealDir, bLoc.plaintextPath}
                  /\ bMade \cap DOMAIN fs = {} \/ bLoc.sealDir \in bLog
    /\ (bIn.op # "ExecuteVesctl" /\ bLoc.vesctlPath # NoPath /\ bWorld.lookPath = "found") =>
          bLoc.vesctlPath =
              <<"/usr/bin/">> \o (IF bIn.vesctl = <<>> THEN <<"vesctl">> ELSE bIn.vesctl)

C15_Witness ==
    /\ LocateFailed
    /\ bIn.op = "Seal"
    /\ Cardinality(bMade) = 2
    /\ bMade \cap DOMAIN fs = {}

BadPath == bIn.op = "SealFile" /\ bIn.plaintextPath \notin DOMAIN InitialFs

StagingCauses ==
    {"exec.ErrNotFound", "os.MkdirTemp", "os.CreateTemp", "File.Write", "File.Close"}

\* C16: SealFile performs no pre-flight check of plaintextPath: for an empty
\* or nonexistent path, a call whose staging succeeds has staged both
\* envelopes and launches the tool with the path verbatim as the fourth
\* positional argument, and it then returns the tool's rejection, which is
\* ErrVesctl; a call that returns without a launch failed to locate the tool
\* or to stage, not on the path.
C16_NoPreflight ==
    BadPath =>
        /\ ChildStarted =>
              /\ Len(child.argv.args) = 4
              /\ SubSeq(child.argv.args, 1, 3) = << <<"request">>, <<"secrets">>, <<"encrypt">> >>
              /\ child.argv.args[4] = bIn.plaintextPath
              /\ {bLoc.pubKeyFile, bLoc.policyDocumentFile} \subseteq bMade
              /\ bLoc.pubKeyFile # bLoc.policyDocumentFile
              /\ child.argv.params["--public-key"] = bLoc.pubKeyFile
              /\ child.argv.params["--policy-document"] = bLoc.policyDocumentFile
        /\ (bRet.returned /\ ChildStarted) =>
              /\ bRet.data = NilBytes
              /\ ErrorsIs(bRet.err, "ErrVesctl")
        /\ (bRet.returned /\ child.state = "none") =>
              /\ ~bRet.err.isNil
              /\ bRet.err.is \subseteq StagingCauses

C16_Witness ==
    /\ BadPath
    /\ bIn.plaintextPath = <<"path/does/not/exist">>
    /\ bRet.returned
    /\ child.ended = "exit 1"
    /\ child.argv.args[4] = <<"path/does/not/exist">>
    /\ ErrorsIs(bRet.err, "ErrVesctl")

----------------------------------------------------------------------------
(* claims about the unseal requests *)

\* C17: for every input byte sequence sealed, UnsealEncoded sends one POST
\* whose Content-Type is application/json and whose body is exactly the bytes
\* {"type":"blindfold","location":"string:/// followed by sealed unchanged
\* followed by "}; the input is not validated, so the request is sent for
\* every input whenever the endpoint yields a request.
C17_RequestBody ==
    (uEntry \in {"UnsealEncoded", "DefaultUnsealEncoded"} /\ uPc # "idle") =>
        /\ Len(uReqs) <= 1
        /\ uReqs = <<>> <=> ErrorsIs(uResult.err, "url.Error")
        /\ uReqs # <<>> =>
              /\ uReqs[1].method = "POST"
              /\ uReqs[1].contentType = "application/json"
              /\ uReqs[1].body =
                    <<"{\"type\":\"blindfold\",\"location\":\"string:///">>
                        \o uSealed \o <<"\"}">>

C17_Witness ==
    /\ uEntry = "UnsealEncoded"
    /\ uSealed = <<"\"", "Q">>
    /\ uPc = "done"
    /\ Len(uReqs) = 1
    /\ uResp.status = StatusBadRequest
    /\ ErrorsIs(uResult.err, "ErrUnexpectedHTTPStatus")

C18_Original ==
    /\ (uEntry \in {"Unseal", "UnsealEncoded"} /\ uReqs # <<>>) =>
          uReqs[1].url = uEndpoint \o <<"/secret/unseal">>
    /\ wProbeAt >= 0 => wReq.url = WaitEndpoint \o <<"/status">>

\* C18: Unseal and UnsealEncoded send their POST, and WaitForReady its GET,
\* to the caller's endpoint exactly as given: no path is appended.  Only
\* DefaultUnseal and DefaultUnsealEncoded build the URL, as the default
\* sidecar URL followed by /secret/unseal.
C18_RequestURL ==
    /\ (uEntry \in {"Unseal", "UnsealEncoded"} /\ uReqs # <<>>) =>
          /\ uReqs[1].method = "POST"
          /\ uReqs[1].url = uEndpoint
    /\ (uEntry \in {"DefaultUnseal", "DefaultUnsealEncoded"} /\ uReqs # <<>>) =>
          /\ uReqs[1].method = "POST"
          /\ uReqs[1].url = <<"http://localhost:8070", "/secret/unseal">>
    /\ wProbeAt >= 0 =>
          /\ wReq.method = "GET"
          /\ wReq.url = WaitEndpoint

C18_Witness ==
    /\ uEntry = "Unseal"
    /\ uPc = "done"
    /\ uEndpoint = <<"http://wingman.test">>
    /\ uReqs[1].url = <<"http://wingman.test">>
    /\ uResult.err.isNil

EmptyInput ==
    /\ uEntry \in {"Unseal", "UnsealEncoded"}
    /\ uSealed = <<>>
    /\ uEntry = "Unseal" => uRaw = <<>>

\* C19: a zero-length sealed input is not short-circuited: Unseal and
\* UnsealEncoded still send the request, whose location is string:/// with an
\* empty payload, and classify the answer as for any input; when the sidecar
\* answers 200 with an empty body the call returns a zero-length result and a
\* nil error.
C19_EmptyInput ==
    (EmptyInput /\ uPc # "idle") =>
        /\ uReqs = <<>> <=> ErrorsIs(uResult.err, "url.Error")
        /\ uReqs # <<>> =>
              /\ Len(uReqs) = 1
              /\ uReqs[1].body =
                    <<"{\"type\":\"blindfold\",\"location\":\"string:///", "\"}">>
        /\ UResponded =>
              /\ (uResp.status = StatusOK /\ uResp.body = <<>>) =>
                    /\ uResult.err.isNil
                    /\ ~uResult.data.isNil
                    /\ Len(uResult.data.bytes) = 0
              /\ uResp.status = StatusForbidden => ErrorsIs(uResult.err, "ErrDeniedByPolicy")
              /\ uResp.status = StatusServiceUnavailable => ErrorsIs(uResult.err, "ErrNotReady")
              /\ uResp.status \notin {StatusOK, StatusForbidden, StatusServiceUnavailable} =>
                    ErrorsIs(uResult.err, "ErrUnexpectedHTTPStatus")

C19_Witness ==
    /\ EmptyInput
    /\ uEntry = "Unseal"
    /\ UResponded
    /\ uResp.status = StatusOK
    /\ uResp.body = <<>>
    /\ uResult = [data |-> Bytes(<<>>), err |-> NilErr]

\* the test sidecar answered the call's request
SidecarAnswered ==
    /\ UResponded
    /\ uReqs # <<>>
    /\ [status |-> uResp.status, body |-> uResp.body] = UnsealHandler(uReqs[1].body)

\* C20: against a sidecar that answers 200 with base64(f(payload decoded from
\* the location)), f being ROT13, Unseal(S) returns exactly f(S) and a nil
\* error for every S, the empty one included; Unseal(S) sends the request
\* UnsealEncoded(base64(S)) sends, and UnsealEncoded(base64(S)) returns f(S)
\* as well.
C20_RoundTrip ==
    /\ (uEntry \in {"Unseal", "DefaultUnseal"} /\ uReqs # <<>>) =>
          /\ uReqs[1].body =
                <<"{\"type\":\"blindfold\",\"location\":\"string:///">>
                    \o uSealed \o <<"\"}">>
          /\ uRaw = <<72, 105, 33>> => uSealed = <<"S", "G", "k", "h">>
          /\ uRaw = <<65>> => uSealed = <<"Q", "Q", "=", "=">>
          /\ uRaw = <<>> => uSealed = <<>>
          /\ B64Valid(uSealed) /\ B64Decode(uSealed) = uRaw
    /\ (uEntry \in {"Unseal", "DefaultUnseal"} /\ SidecarAnswered) =>
          /\ uResult = [data |-> Bytes(Rot13Bytes(uRaw)), err |-> NilErr]
          /\ uRaw = <<78, 111>> => uResult.data.bytes = <<65, 98>>
    /\ (uEntry \in {"UnsealEncoded", "DefaultUnsealEncoded"} /\ SidecarAnswered) =>
          \A raw \in RawInputs :
              uSealed = B64Encode(raw) =>
                  uResult = [data |-> Bytes(Rot13Bytes(raw)), err |-> NilErr]

C20_Witness ==
    /\ uEntry = "Unseal"
    /\ SidecarAnswered
    /\ uRaw = <<72, 105, 33>>
    /\ uResult = [data |-> Bytes(<<85, 118, 33>>), err |-> NilErr]

----------------------------------------------------------------------------
(* claims about retries, failures and interference *)

\* C21: each call to Unseal or UnsealEncoded hands at most one request to
\* the HTTP client whatever the outcome, and each call to Seal, SealFile or
\* ExecuteVesctl runs the tool at most once.
C21_NoRetry ==
    /\ Len(uReqs) <= 1
    /\ child.runs <= 1

C21_Witness ==
    /\ uPc = "done"
    /\ uResp.status = StatusServiceUnavailable
    /\ ErrorsIs(uResult.err, "ErrNotReady")
    /\ Len(uReqs) = 1

\* C22: when the request fails before any response is received (connection
\* refused, TLS failure, context cancelled or past its deadline), the call
\* returns no data and an error that is none of ErrDeniedByPolicy,
\* ErrNotReady and ErrUnexpectedHTTPStatus.
C22_TransportFailure ==
    (uPc = "done" /\ Len(uReqs) = 1 /\ ~uResp.received) =>
        /\ uResult.data.isNil
        /\ ~uResult.err.isNil
        /\ \A e \in UnsealSentinels : ~ErrorsIs(uResult.err, e)

C22_Witness ==
    /\ uPc = "done"
    /\ Len(uReqs) = 1
    /\ ~uResp.received
    /\ ErrorsIs(uResult.err, "context.DeadlineExceeded")

\* C23: Seal, SealFile, Unseal and UnsealEncoded are all-or-nothing: when
\* the returned error is non-nil the returned slice is nil, a 200 response
\* with invalid base64 and tool output that cannot be scanned included.
C23_AllOrNothing ==
    /\ (uPc = "done" /\ ~uResult.err.isNil) => uResult.data.isNil
    /\ (bRet.returned /\ bIn.op \in {"Seal", "SealFile"} /\ ~bRet.err.isNil) =>
           bRet.data.isNil

C23_Witness ==
    /\ bRet.returned
    /\ bIn.op \in {"Seal", "SealFile"}
    /\ child.ended = "exit 0"
    /\ ErrorsIs(bRet.err, "bufio.ErrTooLong")
    /\ bRet.data.isNil

\* C24: for invocations of Seal, SealFile and ExecuteVesctl running at the
\* same time in one process, the sets of temporary paths they create are
\* disjoint, none writes to or removes a path another holds, and the child
\* of each is started with what follows from the invocation's own arguments
\* and own temporary paths, so that its result depends on nothing else.
ExpectedChild(i) ==
    [ran |-> TRUE, args |-> ConcArgs(i), params |-> ConcParameters(i),
     plaintext |-> IF cIn[i].op = "Seal" THEN cIn[i].plaintext
                   ELSE IF cIn[i].op = "SealFile"
                        THEN InitialFs[cIn[i].plaintextPath].data ELSE <<>>]

C24_NoInterference ==
    /\ cMade[1] \cap cMade[2] = {}
    /\ cForeign = {}
    /\ \A i \in Invocations : cChild[i].ran => cChild[i] = ExpectedChild(i)

\* C25: a log record that carries a sealed value is the Debug record
\* "Processing entry" of the driver's process, which is emitted only when
\* UNSEAL_LOG_LEVEL selects the debug level; at the default level no record
\* carries one, and the records of the unseal client and of the seal path
\* carry none at any level.  (An empty value carries nothing.)
HoldsSealed(r) == \E k \in DOMAIN r.attrs : r.attrs[k] \in {SealedA, SealedB}

C25_Original == \A r \in dLog : ~HoldsSealed(r)

C25_SealedOnlyInDebugEntry ==
    /\ \A r \in dLog :
          HoldsSealed(r) => (r.level = "DEBUG" /\ r.msg = "Processing entry" /\ dLevel = "DEBUG")
    /\ (uPc \in {"sending", "done"} /\ uSealed # <<>>) => uSealed \notin UnsealLogValues
    /\ (bRet.returned /\ ~bRet.data.isNil /\ bRet.data.bytes # <<>>) =>
           bRet.data.bytes \notin BlindfoldLogValues

C25_Witness ==
    /\ dLevel = "DEBUG"
    /\ retCode = 0
    /\ Len(dReqs) = 2
    /\ \E r \in dLog : HoldsSealed(r) /\ r.attrs["sealed"] = SealedB

\* C26: with a status endpoint that cannot be made into a request,
\* WaitForReady sends no probe and never sleeps sleepBetweenAttempts; it
\* returns no later than the initial delay of 1 ms, and what it returns is
\* the request error (which is not ErrNotReady) when the timer case runs,
\* and ErrNotReady when the context is done by then and its case runs.
C26_Original ==
    (~wCfg.endpointOK /\ wRet.returned) =>
        /\ ~wRet.err.isNil
        /\ ~ErrorsIs(wRet.err, "ErrNotReady")
        /\ wProbeAt = -1

C26_MalformedEndpoint ==
    (wPc # "unused" /\ ~wCfg.endpointOK) =>
        /\ wProbeAt = -1
        /\ wReq = NoRequest
        /\ now <= InitialDelay
        /\ wRet.returned =>
              /\ ~wRet.err.isNil
              /\ ErrorsIs(wRet.err, "ErrNotReady") => wCfg.deadline <= wRet.at
              /\ ~ErrorsIs(wRet.err, "ErrNotReady") =>
                    (ErrorsIs(wRet.err, "url.Error") /\ wRet.at = InitialDelay)
              /\ wCfg.deadline > InitialDelay => ~ErrorsIs(wRet.err, "ErrNotReady")

C26_Witness ==
    /\ ~wCfg.endpointOK
    /\ wCfg.deadline = InitialDelay
    /\ wCfg.sleep = MaxSleep
    /\ wRet.returned
    /\ ErrorsIs(wRet.err, "url.Error")

\* C27: WaitForReady issues no probe before its initial delay of 1 ms, and
\* its first probe at exactly that time, whatever sleepBetweenAttempts is;
\* a call with an endpoint that parses and a context that outlives the
\* initial delay has issued a probe before it returns, and a call that
\* returns nil has issued one.
C27_Original == wRet.returned => wProbeAt # -1

C27_FirstProbe ==
    wPc # "unused" =>
        /\ now < InitialDelay => wProbeAt = -1
        /\ (wProbeAt # -1 /\ wLast.kind = "none") => wProbeAt = InitialDelay
        /\ (wRet.returned /\ wCfg.endpointOK /\ wCfg.deadline > InitialDelay) =>
              wProbeAt >= InitialDelay
        /\ (wRet.returned /\ wRet.err.isNil) => wProbeAt >= InitialDelay

C27_Witness ==
    /\ wCfg.server = "timed"
    /\ wCfg.readyAt = 0
    /\ wCfg.sleep = MaxSleep
    /\ wRet.returned
    /\ wRet.err.isNil
    /\ wRet.at = InitialDelay
    /\ wProbeAt = InitialDelay

NothingDone == dReqs = <<>> /\ dReads = <<>> /\ DOMAIN dOut = {}

WingmanReady == wRet.returned /\ wRet.err.isNil

C29_ReadinessGate ==
    /\ [](~WingmanReady => NothingDone)
    /\ []((dPc = "exited" /\ ~WingmanReady) => (retCode = 1 /\ NothingDone))
    /\ ((dPc = "waiting" /\ CtxDone) ~> (dPc = "exited"))

\* C30: once a failure has ended the driver (an input file that cannot be
\* read, a payload that is not JSON, an unseal error, a write error), no
\* further unseal request is handed to the client, no further file is read
\* or written and nothing more is logged; the one Error record of the run
\* carries that failure, and the files after the failing one were not read.
ErrorRecords == {r \in dLog : r.level = "ERROR"}

C30_FirstFailureStops ==
    /\ [][~dErr.isNil => UNCHANGED <<dReqs, dReads, dOut, dLog, dErr, retCode>>]_vars
    /\ []((dPc = "exited" /\ WingmanReady /\ retCode = 1) =>
             /\ ~dErr.isNil
             /\ Len(dReads) = dIdx
             /\ Cardinality(ErrorRecords) = 1
             /\ \A r \in ErrorRecords :
                   r.attrs["error"] = <<ToString(dErr.is), ToString(dErr.code)>> \o dErr.text)
    /\ [](retCode = 0 => dErr.isNil)

C30_Witness ==
    /\ dPc = "exited"
    /\ retCode = 1
    /\ dArgs = 2
    /\ dIdx = 1
    /\ Len(dReqs) = 1
    /\ DOMAIN dSpec # {}
    /\ DOMAIN dOut = {}
    /\ ErrorsIs(dErr, "ErrDeniedByPolicy")

\* C31: a removal of the decoy file or of a staging directory that fails
\* is logged and changes nothing in what is on its way out: across every
\* deferred removal the pending (data, error) pair stays what the primary
\* operation produced, the function that returns there returns exactly that
\* pair, no returned error stems from a removal, and an ExecuteVesctl whose
\* child exited 0 returns nil whatever the removal did.
Removing == bPc \in {"ev.remove", "sf.removeall", "seal.removeall"}

RemovalCauses == {"os.Remove", "os.RemoveAll"}

C31_RemovalNeverMasks ==
    /\ [][Removing => /\ bVal' = bVal
                      /\ bRet'.returned => (bRet'.data = bVal.data /\ bRet'.err = bVal.err)]_vars
    /\ [](bRet.returned => bRet.err.is \cap RemovalCauses = {})
    /\ []((bRet.returned /\ bIn.op = "ExecuteVesctl" /\ child.ended = "exit 0")
             => bRet.err.isNil)

C31_Witness ==
    /\ bRet.returned
    /\ bIn.op = "Seal"
    /\ Cardinality(bLog) = 3
    /\ bRet.err.isNil
    /\ ~bRet.data.isNil
    /\ bRet.data.bytes # <<>>

\* C32: the argument vector of the command is the executable, then the
\* caller's args in their order, then key/value pairs: one pair for each key
\* of the baseline or of params, each key once among the pairs and directly
\* followed by its value, which is the caller's value for a key of params
\* (a baseline key included), the decoy file's name for the other baseline
\* keys, and https://f5xc.invalid/api for --server-urls.  The pairs come in
\* any order.
BaselineKeys == {"--p12-bundle", "--cert", "--key", "--config", "--server-urls"}

ArgumentKeys == BaselineKeys \cup DOMAIN aIn.params

ArgumentValue(k) ==
    IF k \in DOMAIN aIn.params THEN aIn.params[k]
    ELSE IF k = "--server-urls" THEN <<"https://f5xc.invalid/api">>
    ELSE aIn.emptyInputFile

C32_ArgumentVector ==
    aPc = "built" =>
        LET n == Len(aIn.args)
            m == Cardinality(ArgumentKeys)
        IN  /\ Len(aCmd) = 1 + n + 2 * m
            /\ aCmd[1] = aIn.vesctl
            /\ SubSeq(aCmd, 2, n + 1) = aIn.args
            /\ \A k \in ArgumentKeys :
                  /\ Cardinality({j \in 1..m : aCmd[n + 2 * j] = <<k>>}) = 1
                  /\ \A j \in 1..m :
                        aCmd[n + 2 * j] = <<k>> => aCmd[n + 2 * j + 1] = ArgumentValue(k)

C32_Witness ==
    /\ aPc = "built"
    /\ aIn.args = << <<"--cert">>, AmbientCert >>
    /\ DOMAIN aIn.params = {"--server-urls", "--key"}
    /\ aCmd[4] = <<"--server-urls">>
    /\ aCmd[5] = <<"https://tenant.example/api">>
    /\ aCmd[12] = <<"--cert">>
    /\ aCmd[13] = ArgsDecoy

\* C33: WaitForReady makes its probes one at a time and spaces them by
\* sleepBetweenAttempts: while a probe is in flight the timer is neither
\* running nor fired, so nothing can start another; a probe that follows an
\* earlier one starts no sooner than sleepBetweenAttempts after the earlier
\* one completed; and whenever the timer runs after a completed probe it is
\* due exactly sleepBetweenAttempts after that probe, the first retry and
\* every later one alike.
ProbeInFlight == wPc \in {"doing", "reading"}

C33_ProbeSpacing ==
    /\ [](ProbeInFlight => (~timer.armed /\ ~timer.chan))
    /\ [][(~ProbeInFlight /\ ProbeInFlight' /\ wLast.kind # "none")
             => now >= wLast.at + wCfg.sleep]_vars
    /\ []((wPc = "select" /\ wLast.kind # "none" /\ timer.armed)
             => timer.due = wLast.at + wCfg.sleep)
    /\ [][(ProbeInFlight /\ ~ProbeInFlight' /\ wPc' = "select" /\ wLast'.kind # "readfail")
             => timer' = [armed |-> wCfg.sleep > 0, due |-> now + wCfg.sleep,
                          chan |-> wCfg.sleep <= 0]]_vars

C33_Witness ==
    /\ wPc = "doing"
    /\ wCfg.sleep = 2
    /\ wLast.kind = "response"
    /\ wLast.at = 3
    /\ wProbeAt = 5
    /\ ~CtxDone

\* C34: process touches a target file only in the step in which the
\* unseal of the entry in hand has succeeded, and only that entry's path; a
\* write that succeeds leaves there exactly the bytes that unseal returned.
\* When the unseal of an entry fails no file is created or changed, and a
\* payload that is not JSON ends process with no request sent and no file
\* touched.
UnsealOfEntryFailed ==
    dPc = "unsealing" /\ ~dErr'.isNil /\ ~ErrorsIs(dErr', "fs.PathError")

RECURSIVE EntriesRead(_)
EntriesRead(n) ==
    IF n = 0 THEN 0
    ELSE Cardinality(DOMAIN dReads[n].content.spec) + EntriesRead(n - 1)

EveryEntryDone ==
    /\ Len(dReads) = dArgs
    /\ \A n \in 1..Len(dReads) :
          /\ dReads[n].content.kind = "json"
          /\ DOMAIN dReads[n].content.spec \subseteq DOMAIN dOut
    /\ Len(dReqs) = EntriesRead(Len(dReads))
    /\ DOMAIN dSpec = {}

C35_ExitStatus ==
    dPc = "exited" =>
        /\ retCode \in {0, 1}
        /\ retCode = 0 <=> (dArgs >= 1 /\ WingmanReady /\ EveryEntryDone /\ dErr.isNil)
        /\ retCode = 1 <=> ~dErr.isNil
        /\ dArgs = 0 => retCode = 1
        /\ ~WingmanReady => retCode = 1
        /\ (\E n \in 1..Len(dReads) : dReads[n].content.kind # "json") => retCode = 1
        /\ retCode = 1 <=> (\E r \in dLog : r.level = "ERROR")

C35_Witness ==
    /\ dPc = "exited"
    /\ retCode = 0
    /\ dArgs = 2
    /\ Len(dReqs) = 3
    /\ DOMAIN dOut = {<<"/out/a">>, <<"/out/b">>}

\* C36 as stated: the error WaitForReady returns when the context is done
\* and the error UnsealEncoded returns for a 503 response have no sentinel
\* in common.
C36_Original ==
    /\ (wRet.returned /\ ~wRet.err.isNil /\ wCfg.endpointOK) =>
          \A body \in RespBodies :
             wRet.err.is \cap UnsealClassify(StatusServiceUnavailable, body).err.is = {}
    /\ (UResponded /\ uResp.status = StatusServiceUnavailable) =>
          uResult.err.is \cap CancelResult.is = {}

\* C36: the error WaitForReady returns when the context is done and the
\* error UnsealEncoded returns for a 503 response match the same sentinel,
\* ErrNotReady, and no other: every sentinel that matches one matches the
\* other.  The error for the 503 carries the response body as its text, the
\* one for the context carries none.
C36_SharedSentinel ==
    /\ (wRet.returned /\ ~wRet.err.isNil /\ wCfg.endpointOK) =>
          /\ wRet.err.is = {"ErrNotReady"}
          /\ wRet.err.text = <<>>
          /\ \A body \in RespBodies :
                UnsealClassify(StatusServiceUnavailable, body).err.is = wRet.err.is
    /\ (UResponded /\ uResp.status = StatusServiceUnavailable) =>
          /\ uResult.data.isNil
          /\ uResult.err.is = {"ErrNotReady"}
          /\ uResult.err.text = uResp.body
          /\ uResult.err.is = CancelResult.is

C36_Witness ==
    /\ UResponded
    /\ uResp.status = StatusServiceUnavailable
    /\ uResp.body # <<>>
    /\ ErrorsIs(uResult.err, "ErrNotReady")
    /\ ErrorsIs(CancelResult, "ErrNotReady")

\* C37 as stated: while the child runs, the decoy file, the two envelope
\* files and the plaintext file its arguments name all exist.
C37_Original ==
    (child.state = "running" /\ bIn.op # "ExecuteVesctl") =>
        {bLoc.emptyInputFile, bLoc.pubKeyFile, bLoc.policyDocumentFile,
         bLoc.plaintextPath} \subseteq DOMAIN fs

\* the files the call itself has created for the tool
StagedFiles ==
    {bLoc.emptyInputFile}
        \cup (IF bIn.op = "ExecuteVesctl" THEN {}
              ELSE {bLoc.pubKeyFile, bLoc.policyDocumentFile})
        \cup (IF bIn.op = "Seal" THEN {bLoc.plaintextPath} ELSE {})

\* C37: every file the call created for the tool (the decoy file, the two
\* envelope files, and the plaintext file when Seal wrote it) exists when
\* the child is about to be started and for as long as it runs, and nothing
\* is removed while the child runs: every removal happens when no child was
\* started or the child has exited, cancellation included.  The plaintext
\* path a caller gives SealFile is handed to the tool as it is, whether or
\* not it names a file.
C37_StagedFilesOutliveChild ==
    /\ []((bPc = "ev.start" \/ child.state = "running") =>
             \A f \in StagedFiles : f \in DOMAIN fs /\ fs[f].kind = "file")
    /\ [][(\E p \in DOMAIN fs : p \notin DOMAIN fs') =>
             /\ child.state # "running"
             /\ child.runs > 0 => child.state \in {"not started", "exited"}
             /\ bPc \in {"ev.remove", "sf.removeall", "seal.removeall"}]_vars
    /\ []((child.state = "running" /\ bIn.op = "SealFile") =>
             /\ child.argv.args[4] = bIn.plaintextPath
             /\ bIn.plaintextPath \in DOMAIN fs <=> bIn.plaintextPath \in DOMAIN InitialFs)

C37_Witness ==
    /\ bIn.op = "Seal"
    /\ bPc = "ev.remove"
    /\ child.state = "exited"
    /\ child.ended = "killed"
    /\ bCtxDone
    /\ StagedFiles \subseteq DOMAIN fs
    /\ Cardinality(StagedFiles) = 4

\* C38: at every point of NewClient's loop over its options the config
\* holds a certificate or a non-empty token, never both; after an option
\* that succeeded the credential is the one the last authentication option
\* among those applied gave (a token option with an empty token leaves
\* none).  NewClient returns a nil client and the option's error when an
\* option failed, and otherwise ErrMissingURL when no endpoint was set,
\* ErrMissingAuthentication when an endpoint was set and no credential
\* remains, and a client carrying the endpoint and the credential in every
\* other case.
AuthOptions == {"WithP12Certificate", "WithCertKeyPair", "WithAuthToken"}

\* the options the loop has applied, and those among them that set a credential
AppliedOptions == SubSeq(kIn.options, 1, kIdx - 1)

LastAuth ==
    LET at == {n \in 1..Len(AppliedOptions) : AppliedOptions[n].name \in AuthOptions}
    IN  IF at = {} THEN [name |-> "none", arg |-> <<>>]
        ELSE LET n == CHOOSE m \in at : \A o \in at : o <= m
             IN  [name |-> AppliedOptions[n].name, arg |-> AppliedOptions[n].arg]

EndpointGiven ==
    \E n \in 1..Len(AppliedOptions) : AppliedOptions[n].name = "WithAPIEndpoint"

C38_OneCredential ==
    kIn.op = "NewClient" =>
        /\ ~(kCfg.Cert # NoCert /\ kCfg.AuthToken # <<>>)
        /\ (kPc = "options" \/ (kPc = "done" /\ kRet.err.is \cap ClientSentinels
                                                   \subseteq {"ErrMissingURL", "ErrMissingAuthentication"}
                                /\ kIdx > Len(kIn.options))) =>
              /\ LastAuth.name = "none" => (kCfg.Cert = NoCert /\ kCfg.AuthToken = <<>>)
              /\ LastAuth.name = "WithAuthToken" =>
                    (kCfg.Cert = NoCert /\ kCfg.AuthToken = LastAuth.arg)
              /\ LastAuth.name = "WithP12Certificate" =>
                    (kCfg.Cert = <<"p12">> \o LastAuth.arg /\ kCfg.AuthToken = <<>>)
              /\ LastAuth.name = "WithCertKeyPair" =>
                    (kCfg.Cert = <<"pair">> \o LastAuth.arg \o <<"key.pem">> /\ kCfg.AuthToken = <<>>)
        /\ kRet.returned =>
              /\ kRet.client.isNil <=> ~kRet.err.isNil
              /\ kIdx <= Len(kIn.options) =>
                    (kRet.client.isNil /\ ~kRet.err.isNil
                     /\ kRet.err.is \cap {"ErrMissingURL", "ErrMissingAuthentication"} = {})
              /\ kIdx > Len(kIn.options) =>
                    /\ ~EndpointGiven <=> ErrorsIs(kRet.err, "ErrMissingURL")
                    /\ (EndpointGiven /\ kCfg.Cert = NoCert /\ kCfg.AuthToken = <<>>)
                          <=> ErrorsIs(kRet.err, "ErrMissingAuthentication")
                    /\ kRet.err.isNil =>
                          /\ kRet.client.endpoint = kCfg.EndpointURL
                          /\ kRet.client.authToken = kCfg.AuthToken
                          /\ kRet.client.Certificates = {kCfg.Cert} \ {NoCert}
                          /\ ~(kRet.client.Certificates # {} /\ kRet.client.authToken # <<>>)

C38_Witness ==
    /\ kIn.op = "NewClient"
    /\ kRet.returned
    /\ ~kRet.client.isNil
    /\ Len(kIn.options) = 3
    /\ kIn.options[1].name = "WithAuthToken"
    /\ kIn.options[1].arg # <<>>
    /\ kIn.options[2].name = "WithP12Certificate"
    /\ kIn.options[3].name = "WithAPIEndpoint"
    /\ kRet.client.authToken = <<>>
    /\ kRet.client.Certificates # {}

\* C39: EnvelopeAPICall's outcome is fixed by the response status.  200
\* gives the resource under the body's data member and a nil error when the
\* body was read and json.Unmarshal accepts it as an envelope (the zero
\* resource when the body is null or has no data member, or a null one),
\* and otherwise a nil resource and an error that is no sentinel; 401 gives
\* ErrUnauthorized, 403 ErrForbidden, 404 a nil resource and a nil error,
\* every other status ErrUnexpectedHTTPStatus, each with a nil resource and
\* no second sentinel.  When client.Do fails the resource is nil and the
\* error matches no sentinel of the package.
APIReturned == kIn.op = "EnvelopeAPICall" /\ kRet.returned

OnlySentinel(err, sentinel) == ~err.isNil /\ err.is \cap ClientSentinels = {sentinel}

============================================================================
